---- MODULE Spec2Model ----
(***************************************************************************)
(* Subtitle acquisition, caption parsing and language selection of the     *)
(* Seoul hotel reviews ingestion pipeline (ingest/p04_fetch_subtitles.py   *)
(* and src/yt_ingest/yt_subtitles.py).                                     *)
(*                                                                         *)
(* Strings are sequences of one-character strings, so that prefix tests,   *)
(* stripping and joining are computed and not assumed.  A Python dict is   *)
(* the sequence of its keys in iteration order together with a function    *)
(* from keys to values.  Seconds are kept in thousandths (fixed point).    *)
(***************************************************************************)
EXTENDS Integers, Sequences, FiniteSets, TLC

VARIABLES
  langIn,    \* best_lang_key: the arguments (available, pref, fb)
  langOut,   \* best_lang_key: <<>> before the call, <<result>> after it
  doc,       \* caption parsers: the input document (events or cue text)
  parsed,    \* caption parsers: what each parser returned for doc
  entry,     \* acquisition: the entry point that runs ("fetch" or "get")
  fpc,       \* fetch_subs_for_video: the next attempt
  fctx,      \* fetch_subs_for_video: its local variables
  fres,      \* fetch_subs_for_video: what it returned, and through which path
  gpc,       \* get_subtitles: the next step
  gctx,      \* get_subtitles: its local variables
  gres,      \* get_subtitles: the row it returned, or the exception it let out
  calls,     \* acquisition: the extraction calls and downloads made, in order
  caught,    \* acquisition: the exceptions caught, in order
  mtarget,   \* upsert loader: the merge function under call
  bq,        \* upsert loader: the destination tables of the warehouse
  batch,     \* upsert loader: the staged rows
  mlog,      \* upsert loader: what each merge call did (before, after, raised)
  ppc,       \* subtitles pipeline: the next step of p04's main and of the load
  pvids,     \* subtitles pipeline: the video ids p04's loop has yet to process
  seg_rows,  \* subtitles pipeline: p04's seg_rows
  full_rows, \* subtitles pipeline: p04's full_rows
  out_files, \* subtitles pipeline: the rows of the two files under out/
  rfn,       \* retry loops: the fetcher that runs
  rpc,       \* retry loops: "loop" while the fetcher runs, "done" after it
  rdelays,   \* retry loops: the delays the current backoff sequence has left
  rctx,      \* retry loops: the chunk or page at hand, the count of retry
             \* sequences started, the number of chunks or pages
  rlog,      \* retry loops: the HTTP requests and sleeps made, in order
  rout,      \* retry loops: what the fetcher returned or yielded, or that it raised
  bkIn,      \* backoff_sequence: the arguments
  bkOut,     \* backoff_sequence: <<>> before the call, <<the delays>> after it
  apc,       \* /ask: the next step of the handler
  areq,      \* /ask: the request payload
  aqueries,  \* /ask: the warehouse queries issued, in order
  arows,     \* /ask: the rows the retrieval query returned
  aresp,     \* /ask: the response, <<>> before there is one
  sentry,    \* startup: the ingestion entry point that runs and its arguments
  senv,      \* startup: which of the credential and the project id are set
  swh,       \* startup: whether the warehouse holds the dataset and the table
  spc,       \* startup: the next step of the entry point
  slog,      \* startup: the network calls and warehouse mutations made, in order
  upc,       \* concurrent upserts: the next step of each operation
  ubatch,    \* concurrent upserts: the rows each operation was called with
  utmp,      \* concurrent upserts: the staging table, Absent or Some(rows)
  udest,     \* concurrent upserts: the rows of SUBTITLES_RAW
  uread      \* concurrent upserts: what the merge of each operation read

langVars == <<langIn, langOut>>
parseVars == <<doc, parsed>>
acqVars == <<entry, fpc, fctx, fres, gpc, gctx, gres, calls, caught>>
mergeVars == <<mtarget, bq, batch, mlog>>
persistVars == <<ppc, pvids, seg_rows, full_rows, out_files>>
retryVars == <<rfn, rpc, rdelays, rctx, rlog, rout>>
backoffVars == <<bkIn, bkOut>>
askVars == <<apc, areq, aqueries, arows, aresp>>
startVars == <<sentry, senv, swh, spc, slog>>
concVars == <<upc, ubatch, utmp, udest, uread>>
serviceVars == <<retryVars, backoffVars, askVars, startVars, concVars>>
pipeVars == <<mergeVars, persistVars, serviceVars>>
vars == <<langVars, parseVars, acqVars, pipeVars>>

\* The acquisition entry points are not running (the other specifications)
AcqIdle ==
  /\ entry = "none"
  /\ fpc = "idle"
  /\ fctx = <<>>
  /\ fres = <<>>
  /\ gpc = "idle"
  /\ gctx = <<>>
  /\ gres = <<>>
  /\ calls = <<>>
  /\ caught = <<>>

\* The upsert loader is not running
MergeIdle ==
  /\ mtarget = "none"
  /\ bq = <<>>
  /\ batch = <<>>
  /\ mlog = <<>>

\* The subtitles pipeline is not running
PersistIdle ==
  /\ ppc = "idle"
  /\ pvids = <<>>
  /\ seg_rows = <<>>
  /\ full_rows = <<>>
  /\ out_files = <<>>

\* No fetcher with a retry loop is running
RetryIdle ==
  /\ rfn = "none"
  /\ rpc = "idle"
  /\ rdelays = <<>>
  /\ rctx = <<>>
  /\ rlog = <<>>
  /\ rout = <<>>

\* backoff_sequence is not under call
BackoffIdle == bkIn = <<>> /\ bkOut = <<>>

\* No /ask request is being served
AskIdle ==
  /\ apc = "idle"
  /\ areq = <<>>
  /\ aqueries = <<>>
  /\ arows = <<>>
  /\ aresp = <<>>

\* No entry point is starting
StartIdle ==
  /\ sentry = <<>>
  /\ senv = <<>>
  /\ swh = <<>>
  /\ spc = "idle"
  /\ slog = <<>>

\* No concurrent upserts are running
ConcIdle ==
  /\ upc = <<>>
  /\ ubatch = <<>>
  /\ utmp = <<>>
  /\ udest = <<>>
  /\ uread = <<>>

ServiceIdle == RetryIdle /\ BackoffIdle /\ AskIdle /\ StartIdle /\ ConcIdle

\* Nothing but the specification's own component runs
PipeIdle == MergeIdle /\ PersistIdle /\ ServiceIdle

(***************************************************************************)
(* Python values                                                           *)
(***************************************************************************)
\* None where a string is expected: a tuple no character sequence equals.
None == <<"None">>

\* An optional value: <<>> when the key is absent, <<x>> when it holds x.
Absent == <<>>
Some(x) == <<x>>
IsAbsent(o) == Len(o) = 0
Get(o, default) == IF Len(o) = 0 THEN default ELSE o[1]

\* Python truthiness of an optional string (None and "" are falsy).
Truthy(s) == s # None /\ Len(s) > 0

StartsWith(s, p) == Len(s) >= Len(p) /\ SubSeq(s, 1, Len(p)) = p
EndsWith(s, p) == Len(s) >= Len(p) /\ SubSeq(s, Len(s) - Len(p) + 1, Len(s)) = p

\* Is x an element of the sequence s
InSeq(x, s) == \E i \in 1..Len(s) : s[i] = x

\* The sequences of distinct elements of S of length at most n
DistinctSeqs(S, n) ==
  UNION { { s \in [1..m -> S] : \A i, j \in 1..m : i # j => s[i] # s[j] } : m \in 0..n }

\* The sequences of elements of S of length at most n
SeqsUpTo(S, n) == UNION { [1..m -> S] : m \in 0..n }

(***************************************************************************)
(* Language selection policy                                               *)
(***************************************************************************)
en == <<"e", "n">>
ko == <<"k", "o">>
fr == <<"f", "r">>
enUS == <<"e", "n", "-", "U", "S">>
enGB == <<"e", "n", "-", "G", "B">>
koKR == <<"k", "o", "-", "K", "R">>
aen == <<"a", ".", "e", "n">>
ako == <<"a", ".", "k", "o">>

\* A slip in the order list: the auto-generated form tried before the variants
LangOrderAutoFirst(pref, fb) ==
  << pref, <<"a", ".">> \o pref, pref \o <<"-">>,
     fb, <<"a", ".">> \o fb, fb \o <<"-">> >>

\* order = [pref, f"{pref}-", f"a.{pref}", fb, f"{fb}-", f"a.{fb}"]
LangOrder(pref, fb) ==
  << pref, pref \o <<"-">>, <<"a", ".">> \o pref,
     fb, fb \o <<"-">>, <<"a", ".">> \o fb >>

\* for k in keys: if k.startswith(pat): return k
RECURSIVE FirstWithPrefix(_, _, _)
FirstWithPrefix(keys, pat, i) ==
  IF i > Len(keys) THEN None
  ELSE IF StartsWith(keys[i], pat) THEN keys[i]
  ELSE FirstWithPrefix(keys, pat, i + 1)

\* One pattern of the loop: a pattern ending in "-" is a prefix test over the
\* keys in iteration order, any other pattern is a membership test.
MatchPattern(keys, pat) ==
  IF EndsWith(pat, <<"-">>) THEN FirstWithPrefix(keys, pat, 1)
  ELSE IF InSeq(pat, keys) THEN pat
  ELSE None

RECURSIVE LangLoop(_, _, _)
LangLoop(keys, order, i) ==
  IF i > Len(order) THEN None
  ELSE LET r == MatchPattern(keys, order[i])
       IN IF r # None THEN r ELSE LangLoop(keys, order, i + 1)

\* best_lang_key(available, pref, fb); keys is list(available.keys())
best_lang_key(keys, pref, fb) == LangLoop(keys, LangOrder(pref, fb), 1)

(***************************************************************************)
(* Text helpers                                                            *)
(***************************************************************************)
RECURSIVE LStrip(_, _)
LStrip(s, W) == IF Len(s) > 0 /\ s[1] \in W THEN LStrip(Tail(s), W) ELSE s

RECURSIVE RStrip(_, _)
RStrip(s, W) ==
  IF Len(s) > 0 /\ s[Len(s)] \in W THEN RStrip(SubSeq(s, 1, Len(s) - 1), W) ELSE s

\* s.strip(W): the characters of W removed from both ends
Strip(s, W) == RStrip(LStrip(s, W), W)

\* s.replace(a, b) for single characters
Replace(s, a, b) == [i \in 1..Len(s) |-> IF s[i] = a THEN b ELSE s[i]]

\* "".join(parts)
RECURSIVE Concat(_)
Concat(parts) == IF Len(parts) = 0 THEN <<>> ELSE Head(parts) \o Concat(Tail(parts))

\* sep.join(parts) for a one-character separator
RECURSIVE Join(_, _)
Join(parts, sep) ==
  IF Len(parts) = 0 THEN <<>>
  ELSE IF Len(parts) = 1 THEN parts[1]
  ELSE parts[1] \o <<sep>> \o Join(Tail(parts), sep)

\* The whitespace str.strip() removes, among the characters of the model
Whitespace == {" ", "\n", "\t"}

(***************************************************************************)
(* Structured-event (JSON3) parsers                                        *)
(*                                                                         *)
(* An event is [tStartMs, dDurationMs, segs], each field optional; segs    *)
(* holds the list of the fragments' utf8 strings.                          *)
(***************************************************************************)
\* text = "".join(s.get("utf8", "") for s in seg_list).replace("\n", " ").strip()
Json3Text(seg_list) == Strip(Replace(Concat(seg_list), "\n", " "), Whitespace)

\* A slip in the loop: the "if not text: continue" left out
Json3KeepBlank(ev) == Len(Get(ev.segs, <<>>)) > 0

\* parse_json3_events keeps an event when its fragment list is non-empty and its
\* text is non-empty (the two "continue" of the loop).
Json3Keep(ev) ==
  LET seg_list == Get(ev.segs, <<>>)
  IN Len(seg_list) > 0 /\ Len(Json3Text(seg_list)) > 0

\* The (idx, start, dur, text) appended for a retained event
Json3Segment(ev, idx) ==
  [ idx |-> idx,
    start_sec |-> Get(ev.tStartMs, 0),
    dur_sec |-> Get(ev.dDurationMs, 0),
    text |-> Json3Text(Get(ev.segs, <<>>)) ]

RECURSIVE Json3Loop(_, _, _, _)
Json3Loop(events, i, idx, segs) ==
  IF i > Len(events) THEN segs
  ELSE IF Json3Keep(events[i])
       THEN Json3Loop(events, i + 1, idx + 1, Append(segs, Json3Segment(events[i], idx)))
       ELSE Json3Loop(events, i + 1, idx, segs)

\* parse_json3_events(json3_obj), for json3_obj = {"events": events}
parse_json3_events(events) ==
  LET segs == Json3Loop(events, 1, 0, <<>>)
  IN [ segs |-> segs,
       full_text |-> Join([i \in 1..Len(segs) |-> segs[i].text], " ") ]

\* text = "".join(seg.get("utf8", "") for seg in segs).strip()
SnippetText(segs) == Strip(Concat(segs), Whitespace)

\* if not segs or tstart is None: continue
SnippetSkip(e) == Len(Get(e.segs, <<>>)) = 0 \/ IsAbsent(e.tStartMs)

\* _events_to_snippets appends a snippet for an event it does not skip when
\* the stripped text is non-empty.
SnippetKeep(e) == ~SnippetSkip(e) /\ Len(SnippetText(Get(e.segs, <<>>))) > 0

Snippet(e, idx) ==
  LET start == e.tStartMs[1]
      dur == Get(e.dDurationMs, 0)
  IN [ idx |-> idx, start |-> start, end |-> start + dur, duration |-> dur,
       text |-> SnippetText(Get(e.segs, <<>>)) ]

RECURSIVE SnippetLoop(_, _, _, _)
SnippetLoop(events, i, idx, out) ==
  IF i > Len(events) THEN out
  ELSE IF SnippetKeep(events[i])
       THEN SnippetLoop(events, i + 1, idx + 1, Append(out, Snippet(events[i], idx)))
       ELSE SnippetLoop(events, i + 1, idx, out)

\* _events_to_snippets(json3), for json3 = {"events": events}
_events_to_snippets(events) == SnippetLoop(events, 1, 0, <<>>)

(***************************************************************************)
(* Cue-based (WebVTT) parser                                               *)
(*                                                                         *)
(* A line is a sequence of tokens [t, from, to]: "sp" a space, "tab" a     *)
(* tab, "bom" the byte-order mark, "w" a word, "note" a word that starts   *)
(* with NOTE, "arrow" a "-->" that is not part of a well-formed timestamp  *)
(* range, and "ts" a range HH:MM:SS.mmm --> HH:MM:SS.mmm whose from and to *)
(* are <<hours, minutes, seconds in thousandths>>.                         *)
(***************************************************************************)
Tok(t) == [t |-> t, from |-> <<>>, to |-> <<>>]
TokTs(from, to) == [t |-> "ts", from |-> from, to |-> to]

\* ln.strip("\ufeff ").rstrip()
VttCleanLine(ln) ==
  RStrip(Strip(ln, {Tok("bom"), Tok("sp")}), {Tok("sp"), Tok("tab")})

\* "-->" in ln
HasArrow(ln) == \E i \in 1..Len(ln) : ln[i].t \in {"arrow", "ts"}

\* _VTT_TS.search(ln): the pattern is anchored at the start of the line
VttTsMatch(ln) == Len(ln) > 0 /\ ln[1].t = "ts"

\* lines[i].startswith("NOTE")
StartsWithNote(ln) == Len(ln) > 0 /\ ln[1].t = "note"

\* _hms_to_sec(h, m, s_str): int(h) * 3600 + int(m) * 60 + float(s_str)
_hms_to_sec(hms) == hms[1] * 3600000 + hms[2] * 60000 + hms[3]

Max(a, b) == IF a >= b THEN a ELSE b

\* The index at which the inner while loop stops: the first j >= i that is
\* past the end, a blank line or a line holding an arrow.
RECURSIVE VttBodyEnd(_, _)
VttBodyEnd(lines, i) ==
  IF i <= Len(lines) /\ Len(lines[i]) > 0 /\ ~HasArrow(lines[i])
  THEN VttBodyEnd(lines, i + 1)
  ELSE i

\* text_lines: the lines i..j-1 that do not start with NOTE
RECURSIVE VttTextLines(_, _, _)
VttTextLines(lines, i, j) ==
  IF i >= j THEN <<>>
  ELSE IF StartsWithNote(lines[i]) THEN VttTextLines(lines, i + 1, j)
  ELSE <<lines[i]>> \o VttTextLines(lines, i + 1, j)

\* text = " ".join(text_lines).replace("\n", " ").strip()
VttText(text_lines) == Strip(Join(text_lines, Tok("sp")), {Tok("sp"), Tok("tab")})

\* A slip in the duration: the floor at zero left out
VttDurRaw(start, end) == end - start

\* "dur_sec": max(0.0, end - start)
VttDur(start, end) == Max(0, end - start)

RECURSIVE VttLoop(_, _, _, _)
VttLoop(lines, i, idx, segs) ==
  IF i > Len(lines) THEN segs
  ELSE IF HasArrow(lines[i]) /\ VttTsMatch(lines[i])
       THEN LET start == _hms_to_sec(lines[i][1].from)
                end == _hms_to_sec(lines[i][1].to)
                j == VttBodyEnd(lines, i + 1)
                text == VttText(VttTextLines(lines, i + 1, j))
            IN IF Len(text) > 0
               THEN VttLoop(lines, j, idx + 1,
                            Append(segs, [ idx |-> idx, start_sec |-> start,
                                           dur_sec |-> VttDur(start, end), text |-> text ]))
               ELSE VttLoop(lines, j, idx, segs)
       ELSE VttLoop(lines, i + 1, idx, segs)

\* parse_webvtt(vtt_text), for vtt_text.splitlines() = rawLines
parse_webvtt(rawLines) ==
  LET lines == [i \in 1..Len(rawLines) |-> VttCleanLine(rawLines[i])]
      segs == VttLoop(lines, 1, 0, <<>>)
  IN [ segs |-> segs,
       full_text |-> Join([i \in 1..Len(segs) |-> segs[i].text], Tok("sp")) ]

(***************************************************************************)
(* The parsers' inputs                                                     *)
(***************************************************************************)
MaxEvents == 2
MaxLines == 4

StartMsValues == {Absent, Some(1500), Some(-500)}
DurMsValues == {Absent, Some(2000), Some(-1000)}
SegsValues ==
  { Absent,
    Some(<<>>),
    Some(<< <<" ", "\n">> >>),
    Some(<< <<"a", "\n", "b">> >>),
    Some(<< <<"c">>, <<" ", "d", " ">> >>) }
EventValues == [tStartMs : StartMsValues, dDurationMs : DurMsValues, segs : SegsValues]

TsFwd == TokTs(<<0, 0, 1000>>, <<0, 1, 3500>>)
TsBack == TokTs(<<0, 1, 0>>, <<0, 0, 59000>>)
LineValues ==
  { <<>>,
    <<Tok("sp"), Tok("tab")>>,
    <<Tok("bom"), Tok("w")>>,
    <<Tok("sp"), Tok("w"), Tok("sp"), Tok("w"), Tok("sp")>>,
    <<Tok("note"), Tok("sp"), Tok("w")>>,
    <<TsFwd>>,
    <<Tok("bom"), TsFwd, Tok("sp"), Tok("w")>>,
    <<TsBack>>,
    <<Tok("w"), Tok("sp"), Tok("arrow"), Tok("sp"), Tok("w")>>,
    <<Tok("w"), Tok("sp"), TsFwd>> }

NotParsed == [json3 |-> <<>>, snippets |-> <<>>, vtt |-> <<>>]

InitParse ==
  /\ \/ doc \in [kind : {"json3"}, events : SeqsUpTo(EventValues, MaxEvents), lines : {<<>>}]
     \/ doc \in [kind : {"vtt"}, events : {<<>>}, lines : SeqsUpTo(LineValues, MaxLines)]
  /\ parsed = NotParsed
  /\ langIn = <<>>
  /\ langOut = <<>>
  /\ AcqIdle
  /\ PipeIdle

CallParseJson3Events ==
  /\ doc.kind = "json3"
  /\ parsed.json3 = <<>>
  /\ parsed' = [parsed EXCEPT !.json3 = <<parse_json3_events(doc.events)>>]
  /\ UNCHANGED <<doc, langVars, acqVars, pipeVars>>

CallEventsToSnippets ==
  /\ doc.kind = "json3"
  /\ parsed.snippets = <<>>
  /\ parsed' = [parsed EXCEPT !.snippets = <<_events_to_snippets(doc.events)>>]
  /\ UNCHANGED <<doc, langVars, acqVars, pipeVars>>

CallParseWebvtt ==
  /\ doc.kind = "vtt"
  /\ parsed.vtt = <<>>
  /\ parsed' = [parsed EXCEPT !.vtt = <<parse_webvtt(doc.lines)>>]
  /\ UNCHANGED <<doc, langVars, acqVars, pipeVars>>

NextParse == CallParseJson3Events \/ CallEventsToSnippets \/ CallParseWebvtt

SpecParse == InitParse /\ [][NextParse]_vars

\* Bounds of the language-selection inputs
MaxKeys == 3
LangKeys == {en, enUS, enGB, aen, ko, koKR, ako, fr}
LangCodes == {en, ko, fr}

InitLang ==
  /\ langIn \in [keys : DistinctSeqs(LangKeys, MaxKeys), pref : LangCodes, fb : LangCodes]
  /\ langOut = <<>>
  /\ doc = <<>>
  /\ parsed = <<>>
  /\ AcqIdle
  /\ PipeIdle

CallBestLangKey ==
  /\ langOut = <<>>
  /\ langOut' = <<best_lang_key(langIn.keys, langIn.pref, langIn.fb)>>
  /\ UNCHANGED <<langIn, parseVars, acqVars, pipeVars>>

NextLang == CallBestLangKey

SpecLang == InitLang /\ [][NextLang]_vars

(***************************************************************************)
(* Subtitle acquisition: what the extraction backend and the downloads     *)
(* can answer                                                              *)
(***************************************************************************)
Vid == "v1"
DefaultLang == en
DefaultFallback == ko
FullTextCap == 1000000

MaxAcqKeys == 2
AcqKeys == {en, ko, fr}
ErrMsgs == {"Video unavailable", "HTTP Error 429"}

GoodEvents ==
  << [tStartMs |-> Some(1500), dDurationMs |-> Some(2000), segs |-> Some(<< <<"a">> >>)],
     [tStartMs |-> Some(4000), dDurationMs |-> Absent, segs |-> Some(<<>>)],
     [tStartMs |-> Some(5000), dDurationMs |-> Some(1000),
      segs |-> Some(<< <<"c">>, <<" ", "d", " ">> >>)] >>
\* A text too long to write out holds runs: Run(n) is one element that
\* stands for n copies of the letter x
Run(n) == "x*" \o ToString(n)
RunLens == (FullTextCap - 4)..FullTextCap
LongEvents ==
  << [tStartMs |-> Some(0), dDurationMs |-> Some(1000), segs |-> Some(<< <<"a">> >>)],
     [tStartMs |-> Some(1000), dDurationMs |-> Some(1000),
      segs |-> Some(<< <<Run(FullTextCap)>> >>)] >>
BlankEvents ==
  << [tStartMs |-> Some(0), dDurationMs |-> Some(2000), segs |-> Some(<< <<" ", "\n">> >>)] >>

VttGood ==
  << <<Tok("w")>>, <<>>, <<TsFwd>>, <<Tok("w"), Tok("sp"), Tok("w")>>, <<>>,
     <<TsBack>>, <<Tok("note"), Tok("sp"), Tok("w")>> >>
VttHeaderOnly == << <<Tok("w")>> >>
\* A word of n letters in a cue
RunTok(n) == [t |-> "run", from |-> <<n>>, to |-> <<>>]
VttLong == << <<Tok("w")>>, <<>>, <<TsFwd>>, <<Tok("w")>>, <<>>, <<TsFwd>>, <<RunTok(FullTextCap)>> >>

\* A caption payload: kind "none" (no data), "bad" (not a JSON3 object: the
\* parse raises), "events" (a JSON3 object) or "text" (cue text)
Payload(kind, events, lines) == [kind |-> kind, events |-> events, lines |-> lines]
InlineData ==
  { Payload("none", <<>>, <<>>), Payload("bad", <<>>, <<>>),
    Payload("events", GoodEvents, <<>>), Payload("events", BlankEvents, <<>>),
    Payload("events", LongEvents, <<>>) }

\* ydl.extract_info with subtitlesformat=json3: it raises, returns None, or
\* returns an info whose requested_subtitles maps keys to {"data": ...}
InlineResponses ==
  [kind : {"raise"}, err : ErrMsgs, keys : {<<>>}, data : {<<>>}]
    \cup [kind : {"none"}, err : {""}, keys : {<<>>}, data : {<<>>}]
    \cup UNION { [kind : {"info"}, err : {""}, keys : {ks}, data : [1..Len(ks) -> InlineData]]
                 : ks \in DistinctSeqs(AcqKeys, MaxAcqKeys) }

\* One encoding of a track: {"ext": ..., "url": ...}, the url possibly missing
Encoding(ext, hasUrl) == [ext |-> ext, hasUrl |-> hasUrl]
EntryLists ==
  { <<>>,
    <<Encoding("json3", TRUE)>>,
    <<Encoding("vtt", TRUE)>>,
    <<Encoding("vtt", TRUE), Encoding("json3", TRUE)>>,
    <<Encoding("json3", FALSE), Encoding("srv3", TRUE)>> }

\* A mapping from language key to encodings, in the dict's iteration order
EmptyMap == [keys |-> <<>>, entries |-> <<>>]
MappingsOn(keySeqs) == UNION { [keys : {ks}, entries : [1..Len(ks) -> EntryLists]] : ks \in keySeqs }
MappingsOf(n) == MappingsOn({ ks \in DistinctSeqs(AcqKeys, n) : Len(ks) = n })
MappingsUpTo(n) == MappingsOn(DistinctSeqs(AcqKeys, n))

\* ydl.extract_info without a format: it raises, returns None, returns an
\* info whose "subtitles" is not a mapping ("malformed"), or returns an info
\* with the subtitles and automatic_captions mappings, which hold at most
\* MaxAcqKeys tracks together
InfoResponses ==
  [kind : {"raise"}, err : ErrMsgs, subs : {EmptyMap}, autos : {EmptyMap}]
    \cup [kind : {"none", "malformed"}, err : {""}, subs : {EmptyMap}, autos : {EmptyMap}]
    \cup UNION { [kind : {"info"}, err : {""}, subs : MappingsOf(n),
                  autos : MappingsUpTo(MaxAcqKeys - n)] : n \in 0..MaxAcqKeys }

\* The URL of an encoding names the pool, the key and the format it is from
Url(src, lang, ext) == [src |-> src, lang |-> lang, ext |-> ext]
NoUrl == Url("none", None, "none")
UrlTruthy(u) == u.src # "none"

\* download_text(url, sess): None ("fail"), "" ("empty") or a body
Json3Bodies ==
  { Payload("fail", <<>>, <<>>), Payload("empty", <<>>, <<>>), Payload("bad", <<>>, <<>>),
    Payload("events", GoodEvents, <<>>), Payload("events", BlankEvents, <<>>),
    Payload("events", LongEvents, <<>>) }
CueBodies ==
  { Payload("fail", <<>>, <<>>), Payload("empty", <<>>, <<>>),
    Payload("text", <<>>, VttGood), Payload("text", <<>>, VttHeaderOnly),
    Payload("text", <<>>, VttLong) }

IndexOf(keys, k) == CHOOSE i \in 1..Len(keys) : keys[i] = k
Min(a, b) == IF a <= b THEN a ELSE b

\* The number of characters an element of a text stands for: a run in a
\* JSON3 text, a token of a cue text (NOTE, "-->", a timing line, a long word)
CharLen(c) == IF \E n \in RunLens : c = Run(n) THEN CHOOSE n \in RunLens : c = Run(n) ELSE 1
TokLen(c) ==
  CASE c.t = "run" -> c.from[1]
    [] c.t = "note" -> 4
    [] c.t = "arrow" -> 3
    [] c.t = "ts" -> 29
    [] OTHER -> 1

\* len(s) of a JSON3 text and of a cue text
RECURSIVE PyLen(_)
PyLen(s) == IF Len(s) = 0 THEN 0 ELSE CharLen(Head(s)) + PyLen(Tail(s))
RECURSIVE TokPyLen(_)
TokPyLen(s) == IF Len(s) = 0 THEN 0 ELSE TokLen(Head(s)) + TokPyLen(Tail(s))

\* s[:n] of a JSON3 text: a run that does not fit is cut to what is left
RECURSIVE Slice(_, _)
Slice(s, n) ==
  IF Len(s) = 0 \/ n <= 0 THEN <<>>
  ELSE IF CharLen(Head(s)) <= n THEN <<Head(s)>> \o Slice(Tail(s), n - CharLen(Head(s)))
  ELSE <<Run(n)>>

\* s[:n] of a cue text
RECURSIVE TokSlice(_, _)
TokSlice(s, n) ==
  IF Len(s) = 0 \/ n <= 0 THEN <<>>
  ELSE IF TokLen(Head(s)) <= n THEN <<Head(s)>> \o TokSlice(Tail(s), n - TokLen(Head(s)))
  ELSE <<RunTok(n)>>

(***************************************************************************)
(* fetch_subs_for_video                                                    *)
(***************************************************************************)
\* A slip: the fallback to the first key left out
PickKeyStrict(keys, pref, fb) == best_lang_key(keys, pref, fb)

\* k = best_lang_key(m, pref, fb) or (list(m.keys())[0] if m else None)
PickKey(keys, pref, fb) ==
  LET b == best_lang_key(keys, pref, fb)
  IN IF Truthy(b) THEN b ELSE IF Len(keys) > 0 THEN keys[1] ELSE None

\* segments = [dict(video_id=vid, lang=k, **e) for e in evs]
\* full = dict(video_id=vid, lang=k, full_text=full_text[:1_000_000])
Track(k, p, full_text) ==
  [ segments |-> [i \in 1..Len(p.segs) |->
                    [ video_id |-> Vid, lang |-> k, idx |-> p.segs[i].idx,
                      start_sec |-> p.segs[i].start_sec, dur_sec |-> p.segs[i].dur_sec,
                      text |-> p.segs[i].text ]],
    full |-> Some([ video_id |-> Vid, lang |-> k,
                    full_text |-> full_text ]) ]

\* return [], None (and the initial segments, full)
NoCaptions == [segments |-> <<>>, full |-> Absent]

\* What one attempt did: raised (an exception was caught), ok (it returned a
\* track), value (the track)
Outcome(raised, err, ok, value) == [raised |-> raised, err |-> err, ok |-> ok, value |-> value]

\* Attempt A, lines 159-194, on the backend's answer resp
InlineAttempt(resp, pref, fb) ==
  LET rs == IF resp.kind = "info" THEN resp.keys ELSE <<>>
      k == IF Len(rs) > 0 THEN PickKey(rs, pref, fb) ELSE None
      data == IF Truthy(k) THEN resp.data[IndexOf(rs, k)] ELSE Payload("none", <<>>, <<>>)
      p == parse_json3_events(data.events)
  IN [ rs |-> rs, k |-> k,
       out |-> IF resp.kind = "raise" THEN Outcome(TRUE, resp.err, FALSE, NoCaptions)
               ELSE IF data.kind = "bad" THEN Outcome(TRUE, "AttributeError", FALSE, NoCaptions)
               ELSE IF data.kind = "events" /\ Len(p.segs) > 0
                    THEN Outcome(FALSE, "", TRUE,
                                 Track(k, p, Slice(p.full_text, FullTextCap)))
               ELSE Outcome(FALSE, "", FALSE, NoCaptions) ]

\* A slip: an exception in attempt A ends the acquisition
InlineNextAbort(out) == IF out.ok \/ out.raised THEN "done" ELSE "B"

\* After attempt A: return on success; fall through to B otherwise, also
\* from the except clause
InlineNext(out) == IF out.ok THEN "done" ELSE "B"

\* A slip: the auto-generated mapping preferred
ChoosePoolAutoFirst(subs, autos) ==
  IF Len(autos.keys) > 0 THEN [src |-> "auto", m |-> autos] ELSE [src |-> "manual", m |-> subs]

\* pool = subs if subs else autos
ChoosePool(subs, autos) ==
  IF Len(subs.keys) > 0 THEN [src |-> "manual", m |-> subs] ELSE [src |-> "auto", m |-> autos]

\* next((e.get("url") for e in entries if e.get("ext") in exts), None)
RECURSIVE FirstUrl(_, _, _, _, _)
FirstUrl(src, lang, entries, exts, i) ==
  IF i > Len(entries) THEN NoUrl
  ELSE IF entries[i].ext \in exts
       THEN (IF entries[i].hasUrl THEN Url(src, lang, entries[i].ext) ELSE NoUrl)
       ELSE FirstUrl(src, lang, entries, exts, i + 1)

CueExts == {"vtt", "ttml", "srv3", "srv1"}

\* The local variables of attempt B before the extraction answers
NoContext ==
  [ rs |-> <<>>, ak |-> None, discovered |-> FALSE, subs |-> <<>>, autos |-> <<>>,
    src |-> "none", best |-> None, k |-> None, url_json3 |-> NoUrl, url_vtt |-> NoUrl ]

\* Attempt B up to the first download, lines 196-225, on the backend's answer
\* resp: the local variables, and via: "" to go on to the downloads, else the
\* return taken ("error": the except clause of line 257)
DiscoverAttempt(resp, pref, fb) ==
  LET subs == resp.subs
      autos == resp.autos
      pool == ChoosePool(subs, autos)
      keys == pool.m.keys
      k == PickKey(keys, pref, fb)
      entries == IF Truthy(k) THEN pool.m.entries[IndexOf(keys, k)] ELSE <<>>
      ctx == [ rs |-> <<>>, ak |-> None,
               discovered |-> TRUE, subs |-> subs.keys, autos |-> autos.keys,
               src |-> pool.src, best |-> best_lang_key(keys, pref, fb), k |-> k,
               url_json3 |-> FirstUrl(pool.src, k, entries, {"json3"}, 1),
               url_vtt |-> FirstUrl(pool.src, k, entries, CueExts, 1) ]
      blank == [ctx EXCEPT !.src = "none", !.best = None, !.k = None,
                           !.url_json3 = NoUrl, !.url_vtt = NoUrl]
  IN IF resp.kind = "raise" THEN [ctx |-> blank, via |-> "error", err |-> resp.err]
     ELSE IF resp.kind = "malformed"
          THEN [ctx |-> blank, via |-> "error", err |-> "AttributeError"]
     ELSE IF Len(keys) = 0 THEN [ctx |-> blank, via |-> "no_pool", err |-> ""]
     ELSE IF ~Truthy(k) THEN [ctx |-> [blank EXCEPT !.src = pool.src], via |-> "no_key", err |-> ""]
     ELSE [ctx |-> ctx, via |-> "", err |-> ""]

\* A slip: the cue-based encoding tried before the structured one
FirstDownloadCue(ctx) ==
  IF UrlTruthy(ctx.url_vtt) THEN "vtt" ELSE IF UrlTruthy(ctx.url_json3) THEN "json3" ELSE "done"

\* if url_json3: ... / if url_vtt: ... / return [], None
FirstDownload(ctx) ==
  IF UrlTruthy(ctx.url_json3) THEN "json3" ELSE IF UrlTruthy(ctx.url_vtt) THEN "vtt" ELSE "done"

\* Lines 227-240 on the body the download gave
Json3Attempt(body, k) ==
  LET p == parse_json3_events(body.events)
  IN IF body.kind \in {"fail", "empty"} THEN Outcome(FALSE, "", FALSE, NoCaptions)
     ELSE IF body.kind = "bad" THEN Outcome(TRUE, "JSONDecodeError", FALSE, NoCaptions)
     ELSE IF Len(p.segs) > 0 THEN Outcome(FALSE, "", TRUE, Track(k, p, Slice(p.full_text, FullTextCap)))
     ELSE Outcome(FALSE, "", FALSE, NoCaptions)

\* After the structured download: return on success, else the cue-based
\* attempt when a cue-based URL exists, else return [], None
Json3Next(out, ctx) ==
  IF out.ok THEN "done" ELSE IF UrlTruthy(ctx.url_vtt) THEN "vtt" ELSE "done"

\* A slip: a single cue is not taken for a track
CueAttemptStrict(body, k) ==
  LET p == parse_webvtt(body.lines)
  IN IF body.kind \in {"fail", "empty"} THEN Outcome(FALSE, "", FALSE, NoCaptions)
     ELSE IF Len(p.segs) > 1
          THEN Outcome(FALSE, "", TRUE, Track(k, p, TokSlice(p.full_text, FullTextCap)))
     ELSE Outcome(FALSE, "", FALSE, NoCaptions)

\* Lines 242-251 on the body the download gave
CueAttempt(body, k) ==
  LET p == parse_webvtt(body.lines)
  IN IF body.kind \in {"fail", "empty"} THEN Outcome(FALSE, "", FALSE, NoCaptions)
     ELSE IF Len(p.segs) > 0
          THEN Outcome(FALSE, "", TRUE, Track(k, p, TokSlice(p.full_text, FullTextCap)))
     ELSE Outcome(FALSE, "", FALSE, NoCaptions)

\* A call made: the operation, the URL, the body a download gave and the
\* number of segments parsed from what came back
NoBody == Payload("none", <<>>, <<>>)
Call(op, url, n, body) == [op |-> op, url |-> url, n |-> n, body |-> body]
Caught(stage, err) == [stage |-> stage, err |-> err]
Result(status, value, via) == [status |-> status, value |-> value, via |-> via]

\* Attempt A: yt-dlp with subtitlesformat=json3
FetchInline ==
  /\ entry = "fetch" /\ fpc = "A"
  /\ \E resp \in InlineResponses :
       \E a \in {InlineAttempt(resp, DefaultLang, DefaultFallback)} :
          /\ calls' = Append(calls, Call("extract_inline", NoUrl, Len(a.out.value.segments), NoBody))
          /\ caught' = IF a.out.raised THEN Append(caught, Caught("A", a.out.err)) ELSE caught
          /\ fctx' = [fctx EXCEPT !.rs = a.rs, !.ak = a.k]
          /\ fpc' = InlineNext(a.out)
          /\ fres' = IF a.out.ok THEN Result("returned", a.out.value, "inline") ELSE fres
  /\ UNCHANGED <<entry, gpc, gctx, gres, langVars, parseVars, pipeVars>>

\* Attempt B up to the first download: the info dict's subtitle URLs
FetchDiscover ==
  /\ entry = "fetch" /\ fpc = "B"
  /\ \E resp \in InfoResponses :
       \E b \in {DiscoverAttempt(resp, DefaultLang, DefaultFallback)} :
         \E next \in {IF b.via # "" THEN "done" ELSE FirstDownload(b.ctx)} :
           /\ calls' = Append(calls, Call("extract_urls", NoUrl, 0, NoBody))
           /\ caught' = IF b.via = "error" THEN Append(caught, Caught("B", b.err)) ELSE caught
           /\ fctx' = [b.ctx EXCEPT !.rs = fctx.rs, !.ak = fctx.ak]
           /\ fpc' = next
           /\ fres' = IF next = "done"
                      THEN Result("returned", NoCaptions, IF b.via # "" THEN b.via ELSE "no_urls")
                      ELSE fres
  /\ UNCHANGED <<entry, gpc, gctx, gres, langVars, parseVars, pipeVars>>

\* The structured-URL download and its parse
FetchJson3 ==
  /\ entry = "fetch" /\ fpc = "json3"
  /\ \E body \in Json3Bodies :
       \E out \in {Json3Attempt(body, fctx.k)} : \E next \in {Json3Next(out, fctx)} :
          /\ calls' = Append(calls, Call("download", fctx.url_json3, Len(out.value.segments), body))
          /\ caught' = IF out.raised THEN Append(caught, Caught("json3", out.err)) ELSE caught
          /\ fpc' = next
          /\ fres' = IF out.ok THEN Result("returned", out.value, "json3_url")
                     ELSE IF next = "done" THEN Result("returned", NoCaptions, "no_urls")
                     ELSE fres
  /\ UNCHANGED <<entry, fctx, gpc, gctx, gres, langVars, parseVars, pipeVars>>

\* The cue-URL download and its parse
FetchCue ==
  /\ entry = "fetch" /\ fpc = "vtt"
  /\ \E body \in CueBodies :
       \E out \in {CueAttempt(body, fctx.k)} :
          /\ calls' = Append(calls, Call("download", fctx.url_vtt, Len(out.value.segments), body))
          /\ fpc' = "done"
          /\ fres' = IF out.ok THEN Result("returned", out.value, "vtt")
                     ELSE Result("returned", NoCaptions, "no_urls")
  /\ UNCHANGED <<entry, fctx, caught, gpc, gctx, gres, langVars, parseVars, pipeVars>>

(***************************************************************************)
(* get_subtitles                                                           *)
(***************************************************************************)
pref_langs == <<en, ko>>

\* return "", "", ""
NoPick == [url |-> NoUrl, lang |-> <<>>, source |-> ""]

\* One loop of _pick_json3_track over the mapping m of pool src: the first
\* language of langs whose first json3 encoding has a url
RECURSIVE PickLoop(_, _, _, _)
PickLoop(m, src, langs, i) ==
  IF i > Len(langs) THEN NoPick
  ELSE LET lang == langs[i]
           tracks == IF InSeq(lang, m.keys) THEN m.entries[IndexOf(m.keys, lang)] ELSE <<>>
           url == FirstUrl(src, lang, tracks, {"json3"}, 1)
       IN IF UrlTruthy(url) THEN [url |-> url, lang |-> lang, source |-> src]
          ELSE PickLoop(m, src, langs, i + 1)

\* A slip: language before kind, the two pools tried for each language in turn
_pick_json3_track_by_lang(subs, autos, langs) ==
  LET found == {i \in DOMAIN langs :
                  \/ UrlTruthy(PickLoop(subs, "manual", <<langs[i]>>, 1).url)
                  \/ UrlTruthy(PickLoop(autos, "auto", <<langs[i]>>, 1).url)}
      first == CHOOSE i \in found : \A j \in found : i <= j
  IN IF found = {} THEN NoPick
     ELSE IF UrlTruthy(PickLoop(subs, "manual", <<langs[first]>>, 1).url)
          THEN PickLoop(subs, "manual", <<langs[first]>>, 1)
          ELSE PickLoop(autos, "auto", <<langs[first]>>, 1)

\* _pick_json3_track(info, langs), for info = {"subtitles": subs,
\* "automatic_captions": autos}
_pick_json3_track(subs, autos, langs) ==
  LET manual == PickLoop(subs, "manual", langs, 1)
  IN IF UrlTruthy(manual.url) THEN manual ELSE PickLoop(autos, "auto", langs, 1)

Err(code, detail) == [code |-> code, detail |-> detail]

\* The row get_subtitles returns (ingested_at, the time of the call, left
\* out); "None" is Python's None in the source column
Row(lang, text, source, snippets, errors) ==
  [ video_id |-> Vid, subtitle_lang |-> lang, subtitle_text |-> text, source |-> source,
    snippet_count |-> Len(snippets), snippets |-> snippets, errors |-> errors ]

\* A slip: the exception's text left out of the row
ExtractFailedRowBare(e) == Row(None, Absent, "None", <<>>, <<Err("extract_failed", "")>>)

\* Lines 94-98
ExtractFailedRow(e) == Row(None, Absent, "None", <<>>, <<Err("extract_failed", e)>>)

\* Lines 101-105
NoSuitableTrackRow == Row(None, Absent, "None", <<>>, <<Err("no_suitable_track", "")>>)

\* Lines 107-126 on what _download gave: "fail" (the request raises), "empty"
\* and "bad" (json.loads or the parse raises) or a JSON3 object
DownloadRow(body, lang, source) ==
  LET snippets == _events_to_snippets(body.events)
      full_text == IF Len(snippets) > 0
                   THEN Some(Join([i \in 1..Len(snippets) |-> snippets[i].text], " "))
                   ELSE Absent
  IN IF body.kind = "fail"
     THEN Row(lang, Absent, source, <<>>, <<Err("download_or_parse_failed", "HTTPError")>>)
     ELSE IF body.kind \in {"empty", "bad"}
     THEN Row(lang, Absent, source, <<>>, <<Err("download_or_parse_failed", "JSONDecodeError")>>)
     ELSE Row(lang, full_text, source, snippets, <<>>)

GetResult(status, row, exc) == [status |-> status, row |-> row, exc |-> exc]
NoGetContext ==
  [ info |-> [kind |-> "none", err |-> "", subs |-> EmptyMap, autos |-> EmptyMap],
    subs |-> <<>>, autos |-> <<>>, url |-> NoUrl, lang |-> <<>>, source |-> "" ]

\* Lines 88-105: the extraction and the choice of the track
GetExtract ==
  /\ entry = "get" /\ gpc = "extract"
  /\ \E resp \in InfoResponses :
       \E pick \in {_pick_json3_track(resp.subs, resp.autos, pref_langs)} :
         /\ calls' = Append(calls, Call("extract_info", NoUrl, 0, NoBody))
         /\ caught' = IF resp.kind = "raise" THEN Append(caught, Caught("extract", resp.err))
                      ELSE caught
         /\ gctx' = [ info |-> resp, subs |-> resp.subs.keys, autos |-> resp.autos.keys,
                      url |-> pick.url, lang |-> pick.lang, source |-> pick.source ]
         /\ IF resp.kind = "raise"
            THEN gpc' = "done" /\ gres' = GetResult("returned", Some(ExtractFailedRow(resp.err)), "")
            ELSE IF resp.kind \in {"none", "malformed"}
            THEN gpc' = "done" /\ gres' = GetResult("raised", Absent, "AttributeError")
            ELSE IF ~UrlTruthy(pick.url)
            THEN gpc' = "done" /\ gres' = GetResult("returned", Some(NoSuitableTrackRow), "")
            ELSE gpc' = "download" /\ gres' = gres
  /\ UNCHANGED <<entry, fpc, fctx, fres, langVars, parseVars, pipeVars>>

\* Lines 107-126: the download and its parse
GetDownload ==
  /\ entry = "get" /\ gpc = "download"
  /\ \E body \in Json3Bodies :
       \E row \in {DownloadRow(body, gctx.lang, gctx.source)} :
         /\ calls' = Append(calls, Call("download", gctx.url, row.snippet_count, body))
         /\ caught' = IF body.kind \in {"fail", "empty", "bad"}
                      THEN Append(caught, Caught("download", row.errors[1].detail))
                      ELSE caught
         /\ gpc' = "done"
         /\ gres' = GetResult("returned", Some(row), "")
  /\ UNCHANGED <<entry, fpc, fctx, fres, gctx, langVars, parseVars, pipeVars>>

Init ==
  /\ entry \in {"fetch", "get"}
  /\ fpc = IF entry = "fetch" THEN "A" ELSE "idle"
  /\ fctx = NoContext
  /\ fres = Result("pending", NoCaptions, "")
  /\ gpc = IF entry = "get" THEN "extract" ELSE "idle"
  /\ gctx = NoGetContext
  /\ gres = GetResult("pending", Absent, "")
  /\ calls = <<>>
  /\ caught = <<>>
  /\ langIn = <<>>
  /\ langOut = <<>>
  /\ doc = <<>>
  /\ parsed = <<>>
  /\ PipeIdle

Next == FetchInline \/ FetchDiscover \/ FetchJson3 \/ FetchCue \/ GetExtract \/ GetDownload

Spec == Init /\ [][Next]_vars

(***************************************************************************)
(* The upsert loader: ingest/load_to_bq.py and src/yt_ingest/bq_client.py. *)
(* A table is the sequence of its rows; a MERGE statement is computed as   *)
(* the warehouse documents it.                                             *)
(***************************************************************************)
\* SQL NULL in a key column
Null == "NULL"

\* The value of a non-key column: the column's name and the version of the row
Cell(col, v) == <<col, v>>

\* TIMESTAMP(s) and SAFE_CAST(s AS TIMESTAMP) of a well-formed string
Timestamp(s) == <<"TIMESTAMP", s>>

\* T.k = S.k: NULL equals nothing
SqlEq(a, b) == a # Null /\ b # Null /\ a = b

\* T.k IS NOT DISTINCT FROM S.k: NULL equals NULL
NotDistinct(a, b) == a = b

\* The staged rows the i-th destination row matches: on[i, j] is the ON
\* condition of the i-th destination row and the j-th staged row
Matches(on, i, n) == { j \in 1..n : on[i, j] }

\* MERGE T USING S ON on [WHEN MATCHED THEN UPDATE] WHEN NOT MATCHED THEN
\* INSERT, with update[i, j] the i-th destination row after SET from the
\* j-th staged row and insert[j] the row inserted for the j-th staged row:
\* the statement fails, changing nothing, when an update would have to
\* choose among several staged rows for one destination row
Merge(T, S, on, hasUpdate, update, insert) ==
  LET ambiguous == hasUpdate /\ \E i \in 1..Len(T) : Cardinality(Matches(on, i, Len(S))) > 1
      updated == [i \in 1..Len(T) |->
                    IF hasUpdate /\ Matches(on, i, Len(S)) # {}
                    THEN update[i, CHOOSE j \in Matches(on, i, Len(S)) : TRUE]
                    ELSE T[i]]
      fresh == SelectSeq([j \in 1..Len(S) |-> j], LAMBDA j : \A i \in 1..Len(T) : ~on[i, j])
      inserted == [n \in 1..Len(fresh) |-> insert[fresh[n]]]
  IN IF ambiguous THEN [raised |-> TRUE, rows |-> T]
     ELSE [raised |-> FALSE, rows |-> updated \o inserted]

\* ---- channels
ChannelRow(id, v) ==
  [ channel_id |-> id, channel_title |-> Cell("channel_title", v),
    uploads_playlist |-> Cell("uploads_playlist", v),
    channel_subs |-> Cell("channel_subs", v), country |-> Cell("country", v) ]

ChannelsOn(t, s) == SqlEq(t.channel_id, s.channel_id)
ChannelsUpdate(t, s) ==
  [t EXCEPT !.channel_title = s.channel_title, !.uploads_playlist = s.uploads_playlist,
            !.channel_subs = s.channel_subs, !.country = s.country]
ChannelsInsert(s) ==
  [ channel_id |-> s.channel_id, channel_title |-> s.channel_title,
    uploads_playlist |-> s.uploads_playlist, channel_subs |-> s.channel_subs,
    country |-> s.country ]
_merge_channels(T, stg) ==
  Merge(T, stg, [i \in 1..Len(T), j \in 1..Len(stg) |-> ChannelsOn(T[i], stg[j])], TRUE,
        [i \in 1..Len(T), j \in 1..Len(stg) |-> ChannelsUpdate(T[i], stg[j])],
        [j \in 1..Len(stg) |-> ChannelsInsert(stg[j])])

\* ---- videos: the staged published_at is a string, the column a TIMESTAMP
VideoRow(id, v) ==
  [ video_id |-> id, channel_id |-> Cell("channel_id", v), title |-> Cell("title", v),
    description |-> Cell("description", v), published_at |-> Cell("published_at", v),
    view_count |-> Cell("view_count", v), like_count |-> Cell("like_count", v),
    tags |-> Cell("tags", v), default_lang |-> Cell("default_lang", v),
    duration_sec |-> Cell("duration_sec", v) ]

VideosOn(t, s) == SqlEq(t.video_id, s.video_id)
VideosUpdate(t, s) ==
  [t EXCEPT !.channel_id = s.channel_id, !.title = s.title, !.description = s.description,
            !.published_at = Timestamp(s.published_at), !.view_count = s.view_count,
            !.like_count = s.like_count, !.tags = s.tags, !.default_lang = s.default_lang,
            !.duration_sec = s.duration_sec]
VideosInsert(s) ==
  [ video_id |-> s.video_id, channel_id |-> s.channel_id, title |-> s.title,
    description |-> s.description, published_at |-> Timestamp(s.published_at),
    view_count |-> s.view_count, like_count |-> s.like_count, tags |-> s.tags,
    default_lang |-> s.default_lang, duration_sec |-> s.duration_sec ]
_merge_videos(T, stg) ==
  Merge(T, stg, [i \in 1..Len(T), j \in 1..Len(stg) |-> VideosOn(T[i], stg[j])], TRUE,
        [i \in 1..Len(T), j \in 1..Len(stg) |-> VideosUpdate(T[i], stg[j])],
        [j \in 1..Len(stg) |-> VideosInsert(stg[j])])

\* ---- subtitles_segments and subtitles_full
SegmentRow(vid, lang, idx, v) ==
  [ video_id |-> vid, lang |-> lang, idx |-> idx, start_sec |-> Cell("start_sec", v),
    dur_sec |-> Cell("dur_sec", v), text |-> Cell("text", v) ]
FullRow(vid, lang, v) == [video_id |-> vid, lang |-> lang, full_text |-> Cell("full_text", v)]

\* (idx is an integer in every row of the model, never NULL)
SegmentsOn(t, s) ==
  SqlEq(t.video_id, s.video_id) /\ SqlEq(t.lang, s.lang) /\ t.idx = s.idx
\* The segments statement has no WHEN MATCHED clause
SegmentsUpdate(t, s) == t
SegmentsInsert(s) ==
  [ video_id |-> s.video_id, lang |-> s.lang, idx |-> s.idx, start_sec |-> s.start_sec,
    dur_sec |-> s.dur_sec, text |-> s.text ]

FullOn(t, s) == SqlEq(t.video_id, s.video_id) /\ SqlEq(t.lang, s.lang)
FullUpdate(t, s) == [t EXCEPT !.full_text = s.full_text]
FullInsert(s) == [video_id |-> s.video_id, lang |-> s.lang, full_text |-> s.full_text]

\* _merge_subtitles(seg_stg, full_stg): a staging table is None when its file
\* held no row; the second statement does not run when the first one raises
_merge_subtitles(Tseg, Tfull, seg_stg, full_stg) ==
  LET a == IF Len(seg_stg) > 0
           THEN Merge(Tseg, seg_stg, [i \in 1..Len(Tseg), j \in 1..Len(seg_stg) |-> SegmentsOn(Tseg[i], seg_stg[j])], FALSE,
        [i \in 1..Len(Tseg), j \in 1..Len(seg_stg) |-> SegmentsUpdate(Tseg[i], seg_stg[j])],
        [j \in 1..Len(seg_stg) |-> SegmentsInsert(seg_stg[j])])
           ELSE [raised |-> FALSE, rows |-> Tseg]
      b == IF ~a.raised /\ Len(full_stg) > 0
           THEN Merge(Tfull, full_stg, [i \in 1..Len(Tfull), j \in 1..Len(full_stg) |-> FullOn(Tfull[i], full_stg[j])], TRUE,
        [i \in 1..Len(Tfull), j \in 1..Len(full_stg) |-> FullUpdate(Tfull[i], full_stg[j])],
        [j \in 1..Len(full_stg) |-> FullInsert(full_stg[j])])
           ELSE [raised |-> FALSE, rows |-> Tfull]
  IN [raised |-> a.raised \/ b.raised, segments |-> a.rows, full |-> b.rows]

\* ---- SUBTITLES_RAW
RawRow(vid, lang, v) ==
  [ video_id |-> vid, subtitle_lang |-> lang, subtitle_text |-> Cell("subtitle_text", v),
    source |-> Cell("source", v), snippet_count |-> Cell("snippet_count", v),
    snippets |-> Cell("snippets", v), errors |-> Cell("errors", v),
    ingested_at |-> Cell("ingested_at", v) ]

\* ARRAY_AGG(STRUCT(x.idx, x.start, x.end, x.duration, x.text)) over the
\* elements of S.snippets: the same elements
snippets_fixed(snippets) == snippets

\* _build_merge_condition_from_keys(["video_id", "subtitle_lang"])
_build_merge_condition_from_keys(t, s) ==
  NotDistinct(t.video_id, s.video_id) /\ NotDistinct(t.subtitle_lang, s.subtitle_lang)
RawUpdate(t, s) ==
  [t EXCEPT !.subtitle_lang = s.subtitle_lang, !.subtitle_text = s.subtitle_text,
            !.source = s.source, !.snippet_count = s.snippet_count,
            !.snippets = snippets_fixed(s.snippets), !.errors = s.errors,
            !.ingested_at = Timestamp(s.ingested_at)]
RawInsert(s) ==
  [ video_id |-> s.video_id, subtitle_lang |-> s.subtitle_lang,
    subtitle_text |-> s.subtitle_text, source |-> s.source,
    snippet_count |-> s.snippet_count, snippets |-> snippets_fixed(s.snippets),
    errors |-> s.errors, ingested_at |-> Timestamp(s.ingested_at) ]

\* upsert_subtitles_raw(rows): nothing is done for an empty list
upsert_subtitles_raw(T, rows) ==
  IF Len(rows) = 0 THEN [raised |-> FALSE, rows |-> T]
  ELSE Merge(T, rows, [i \in 1..Len(T), j \in 1..Len(rows) |-> _build_merge_condition_from_keys(T[i], rows[j])], TRUE,
        [i \in 1..Len(T), j \in 1..Len(rows) |-> RawUpdate(T[i], rows[j])],
        [j \in 1..Len(rows) |-> RawInsert(rows[j])])

\* ---- the merges under call: destination tables and staged batches
MaxRows == 2
MaxMerges == 2
Versions == {1, 2}

ChannelRows == { ChannelRow(id, v) : id \in {"c1", Null}, v \in Versions }
VideoRows == { VideoRow(id, v) : id \in {"v1", Null}, v \in Versions }
SegmentRows == { SegmentRow("v1", lang, 0, v) : lang \in {"en", Null}, v \in Versions }
FullRows == { FullRow("v1", lang, v) : lang \in {"en", Null}, v \in Versions }
RawRows == { RawRow("v1", lang, v) : lang \in {"en", Null}, v \in Versions }

\* Rows as the destination holds them
VideoDestRows == { VideosInsert(r) : r \in VideoRows }
RawDestRows == { RawInsert(r) : r \in RawRows }

NoTables ==
  [ channels |-> <<>>, videos |-> <<>>, subtitles_segments |-> <<>>, subtitles_full |-> <<>>,
    SUBTITLES_RAW |-> <<>> ]
NoBatch == [rows |-> <<>>, seg |-> <<>>, full |-> <<>>]

\* Two sequences over A and B that hold at most n elements together
PairsUpTo(A, B, n) ==
  { p \in SeqsUpTo(A, n) \X SeqsUpTo(B, n) : Len(p[1]) + Len(p[2]) <= n }

NonEmpty(seqs) == { s \in seqs : Len(s) > 0 }

InitMerge ==
  /\ mtarget \in {"channels", "videos", "subtitles", "subtitles_raw"}
  /\ mlog = <<>>
  /\ CASE mtarget = "channels" ->
            /\ \E T \in SeqsUpTo(ChannelRows, MaxRows) : bq = [NoTables EXCEPT !.channels = T]
            /\ \E S \in NonEmpty(SeqsUpTo(ChannelRows, MaxRows)) : batch = [NoBatch EXCEPT !.rows = S]
       [] mtarget = "videos" ->
            /\ \E T \in SeqsUpTo(VideoDestRows, MaxRows) : bq = [NoTables EXCEPT !.videos = T]
            /\ \E S \in NonEmpty(SeqsUpTo(VideoRows, MaxRows)) : batch = [NoBatch EXCEPT !.rows = S]
       [] mtarget = "subtitles" ->
            /\ \E T \in PairsUpTo(SegmentRows, FullRows, MaxRows) :
                 bq = [NoTables EXCEPT !.subtitles_segments = T[1], !.subtitles_full = T[2]]
            /\ \E S \in PairsUpTo(SegmentRows, FullRows, MaxRows) :
                 /\ Len(S[1]) + Len(S[2]) > 0
                 /\ batch = [NoBatch EXCEPT !.seg = S[1], !.full = S[2]]
       [] mtarget = "subtitles_raw" ->
            /\ \E T \in SeqsUpTo(RawDestRows, MaxRows) : bq = [NoTables EXCEPT !.SUBTITLES_RAW = T]
            /\ \E S \in SeqsUpTo(RawRows, MaxRows) : batch = [NoBatch EXCEPT !.rows = S]
  /\ langIn = <<>>
  /\ langOut = <<>>
  /\ doc = <<>>
  /\ parsed = <<>>
  /\ AcqIdle
  /\ PersistIdle
  /\ ServiceIdle

\* One merge call: the tables before it, after it, and whether it raised
MergeCall(before, after, raised) == [before |-> before, after |-> after, raised |-> raised]

CallMergeChannels ==
  /\ mtarget = "channels" /\ Len(mlog) < MaxMerges
  /\ \E r \in {_merge_channels(bq.channels, batch.rows)} :
       /\ bq' = [bq EXCEPT !.channels = r.rows]
       /\ mlog' = Append(mlog, MergeCall(bq, bq', r.raised))
  /\ UNCHANGED <<mtarget, batch, langVars, parseVars, acqVars, persistVars, serviceVars>>

CallMergeVideos ==
  /\ mtarget = "videos" /\ Len(mlog) < MaxMerges
  /\ \E r \in {_merge_videos(bq.videos, batch.rows)} :
       /\ bq' = [bq EXCEPT !.videos = r.rows]
       /\ mlog' = Append(mlog, MergeCall(bq, bq', r.raised))
  /\ UNCHANGED <<mtarget, batch, langVars, parseVars, acqVars, persistVars, serviceVars>>

CallMergeSubtitles ==
  /\ mtarget = "subtitles" /\ Len(mlog) < MaxMerges
  /\ \E r \in {_merge_subtitles(bq.subtitles_segments, bq.subtitles_full, batch.seg, batch.full)} :
       /\ bq' = [bq EXCEPT !.subtitles_segments = r.segments, !.subtitles_full = r.full]
       /\ mlog' = Append(mlog, MergeCall(bq, bq', r.raised))
  /\ UNCHANGED <<mtarget, batch, langVars, parseVars, acqVars, persistVars, serviceVars>>

CallUpsertSubtitlesRaw ==
  /\ mtarget = "subtitles_raw" /\ Len(mlog) < MaxMerges
  /\ \E r \in {upsert_subtitles_raw(bq.SUBTITLES_RAW, batch.rows)} :
       /\ bq' = [bq EXCEPT !.SUBTITLES_RAW = r.rows]
       /\ mlog' = Append(mlog, MergeCall(bq, bq', r.raised))
  /\ UNCHANGED <<mtarget, batch, langVars, parseVars, acqVars, persistVars, serviceVars>>

NextMerge == CallMergeChannels \/ CallMergeVideos \/ CallMergeSubtitles \/ CallUpsertSubtitlesRaw

SpecMerge == InitMerge /\ [][NextMerge]_vars

(***************************************************************************)
(* The subtitles pipeline: p04's main (the loop over the video ids and the *)
(* two files it writes) followed by the subtitles load of load_to_bq.      *)
(***************************************************************************)
MaxVideos == 2
VideoIds == {"v1", "v2"}

\* What fetch_subs_for_video(vid, ...) returns: [], None or a track of one
\* or two segments with its full text
SubsOf(vid, lang, n, v) ==
  [ segments |-> [i \in 1..n |-> SegmentRow(vid, lang, i - 1, v)],
    full |-> Some(FullRow(vid, lang, v)) ]
FetchReturns(vid) ==
  {NoCaptions} \cup { SubsOf(vid, lang, n, v) : lang \in {"en", "ko"}, n \in 1..2, v \in Versions }

\* A file not written yet reads as no rows
NoFiles == [segments |-> <<>>, full |-> <<>>]

\* The destination before the run: empty, or holding one track whole
TablesBefore ==
  { NoTables,
    [NoTables EXCEPT !.subtitles_segments = SubsOf("v1", "en", 1, 1).segments,
                     !.subtitles_full = <<FullRow("v1", "en", 1)>>] }

InitPersist ==
  /\ ppc = "loop"
  /\ pvids \in SeqsUpTo(VideoIds, MaxVideos)
  /\ seg_rows = <<>>
  /\ full_rows = <<>>
  /\ out_files = NoFiles
  /\ mtarget = "subtitles"
  /\ bq \in TablesBefore
  /\ batch = NoBatch
  /\ mlog = <<>>
  /\ langIn = <<>>
  /\ langOut = <<>>
  /\ doc = <<>>
  /\ parsed = <<>>
  /\ AcqIdle
  /\ ServiceIdle

\* One iteration of the loop of p04's main
P04Fetch ==
  /\ ppc = "loop" /\ Len(pvids) > 0
  /\ \E r \in FetchReturns(Head(pvids)) :
       /\ seg_rows' = IF Len(r.segments) > 0 THEN seg_rows \o r.segments ELSE seg_rows
       /\ full_rows' = IF Len(r.segments) > 0 /\ ~IsAbsent(r.full)
                       THEN Append(full_rows, r.full[1]) ELSE full_rows
  /\ pvids' = Tail(pvids)
  /\ UNCHANGED <<ppc, out_files, mergeVars, langVars, parseVars, acqVars, serviceVars>>

\* After the loop: write_jsonl of the two files
P04Write ==
  /\ ppc = "loop" /\ Len(pvids) = 0
  /\ out_files' = [segments |-> seg_rows, full |-> full_rows]
  /\ ppc' = "load"
  /\ UNCHANGED <<pvids, seg_rows, full_rows, mergeVars, langVars, parseVars, acqVars, serviceVars>>

\* _merge_subtitles when the warehouse may also fail a statement: failAt is
\* the statement that fails ("none", "segments" or "full")
MergeSubtitlesFailing(Tseg, Tfull, seg_stg, full_stg, failAt) ==
  IF failAt = "segments" /\ Len(seg_stg) > 0
  THEN [raised |-> TRUE, segments |-> Tseg, full |-> Tfull]
  ELSE LET r == _merge_subtitles(Tseg, Tfull, seg_stg, full_stg)
       IN IF failAt = "full" /\ Len(full_stg) > 0
          THEN [raised |-> TRUE, segments |-> r.segments, full |-> Tfull]
          ELSE r

\* load_to_bq's main with --target subtitles
LoadSubtitles ==
  /\ ppc = "load"
  /\ \E failAt \in {"none", "segments", "full"} :
       LET seg == out_files.segments
           full == out_files.full
       IN IF Len(seg) = 0 /\ Len(full) = 0
          THEN /\ ppc' = "done"
               /\ UNCHANGED <<bq, batch, mlog>>
          ELSE \E r \in {MergeSubtitlesFailing(bq.subtitles_segments, bq.subtitles_full,
                                               seg, full, failAt)} :
                 /\ batch' = [NoBatch EXCEPT !.seg = seg, !.full = full]
                 /\ bq' = [bq EXCEPT !.subtitles_segments = r.segments, !.subtitles_full = r.full]
                 /\ mlog' = Append(mlog, MergeCall(bq, bq', r.raised))
                 /\ ppc' = IF r.raised THEN "failed" ELSE "done"
  /\ UNCHANGED <<pvids, seg_rows, full_rows, out_files, mtarget, langVars, parseVars, acqVars, serviceVars>>

NextPersist == P04Fetch \/ P04Write \/ LoadSubtitles

SpecPersist == InitPersist /\ [][NextPersist]_vars

(***************************************************************************)
(* backoff_sequence (ingest/common.py).  Delays are whole seconds.         *)
(***************************************************************************)

\* The defaults of backoff_sequence's parameters
DefaultMaxTries == 3
DefaultBase == 1
DefaultCap == 16
DefaultFactor == 2

\* The loop of backoff_sequence with n rounds to go:
\*   yield min(delay, cap); delay = min(delay * factor, cap)
RECURSIVE BackoffLoop(_, _, _, _)
BackoffLoop(n, delay, cap, factor) ==
  IF n <= 0
  THEN <<>>
  ELSE <<Min(delay, cap)>> \o BackoffLoop(n - 1, Min(delay * factor, cap), cap, factor)

\* The same values with the first one left uncapped
backoff_sequence_uncapped(max_tries, base, cap, factor) ==
  IF max_tries <= 0
  THEN <<>>
  ELSE <<base>> \o Tail(BackoffLoop(max_tries, base, cap, factor))

\* backoff_sequence(max_tries, base, cap, factor): the values it yields, in order
backoff_sequence(max_tries, base, cap, factor) ==
  BackoffLoop(max_tries, base, cap, factor)

\* Bounds of the arguments
MaxTriesArg == 3
MaxDelayArg == 4
MaxFactorArg == 3

BackoffArgs ==
  [max_tries : 0..MaxTriesArg, base : 1..MaxDelayArg,
   cap : 1..MaxDelayArg, factor : 1..MaxFactorArg]

InitBackoff ==
  /\ bkIn \in {<<a>> : a \in BackoffArgs}
  /\ bkOut = <<>>
  /\ langIn = <<>>
  /\ langOut = <<>>
  /\ doc = <<>>
  /\ parsed = <<>>
  /\ AcqIdle
  /\ MergeIdle
  /\ PersistIdle
  /\ RetryIdle
  /\ AskIdle
  /\ StartIdle
  /\ ConcIdle

\* list(backoff_sequence(max_tries, base, cap, factor))
CallBackoffSequence ==
  /\ bkOut = <<>>
  /\ bkOut' = <<backoff_sequence(bkIn[1].max_tries, bkIn[1].base,
                                 bkIn[1].cap, bkIn[1].factor)>>
  /\ UNCHANGED <<bkIn, langVars, parseVars, acqVars, mergeVars, persistVars,
                 retryVars, askVars, startVars, concVars>>

NextBackoff == CallBackoffSequence

SpecBackoff == InitBackoff /\ [][NextBackoff]_vars

(***************************************************************************)
(* The retry loops built on backoff_sequence: download_text                *)
(* (ingest/p04_fetch_subtitles.py), channels_list                          *)
(* (ingest/p01_fetch_channels.py), playlist_items and videos_list          *)
(* (ingest/p02_fetch_videos.py).  One action is one round of a loop: the   *)
(* request, the handling of its response and, after the last round of a    *)
(* retry sequence, what the code does when the for loop ends.              *)
(***************************************************************************)

\* What session.get of download_text can come back with: "ok" is a 200, "404"
\* stands for the statuses raise_for_status raises on, "timeout" for a
\* RequestException raised by the call itself.
DownloadResponses == {"ok", "429", "500", "503", "404", "timeout"}

\* What requests.get of the list fetchers can come back with: "ok" is a 200
\* whose body the code can read, "malformed" a 200 whose items lack a field
\* the code indexes (KeyError), "error" any RequestException, raised by
\* raise_for_status or by the call itself.
ListResponses == {"ok", "malformed", "429", "error"}

\* videos_list: batch = 50
BatchSize == 50

\* Bounds: chunks of videos_list, pages of a playlist, retry sequences one
\* call of playlist_items is followed through
MaxChunks == 2
MaxPages == 2
MaxSequences == 3

\* Events of the log: a request of retry sequence seq for chunk or page at,
\* with its response; a jitter_sleep(delay, 0.5)
Req(seq, at, resp) == [e |-> "get", seq |-> seq, at |-> at, resp |-> resp, delay |-> 0]
Slept(seq, at, delay) == [e |-> "sleep", seq |-> seq, at |-> at, resp |-> "", delay |-> delay]

Running(value) == <<[kind |-> "running", value |-> value]>>
Returned(value) == <<[kind |-> "returned", value |-> value]>>
Raised(value) == <<[kind |-> "raised", value |-> value]>>

\* The lengths of the id list videos_list is called with
IdCounts == {0} \cup {BatchSize * (k - 1) + 1 : k \in 1..MaxChunks}
                \cup {BatchSize * k : k \in 1..MaxChunks}

\* range(0, len(ids), batch): the number of chunks
ChunksOf(n) == (n + BatchSize - 1) \div BatchSize

RetryCtx(n, at, seq, token) == [n |-> n, at |-> at, seq |-> seq, token |-> token]

InitRetry ==
  /\ rfn \in {"download_text", "channels_list", "videos_list", "playlist_items"}
  /\ rpc = "loop"
  /\ rdelays = backoff_sequence(DefaultMaxTries, DefaultBase, DefaultCap, DefaultFactor)
  /\ rctx \in CASE rfn = "videos_list" ->
                     {RetryCtx(ChunksOf(c), 1, 1, Absent) : c \in IdCounts}
                [] rfn = "playlist_items" ->
                     {RetryCtx(n, 1, 1, Absent) : n \in 1..MaxPages}
                [] OTHER -> {RetryCtx(1, 1, 1, Absent)}
  /\ rlog = <<>>
  /\ rout = Running(<<>>)
  /\ langIn = <<>>
  /\ langOut = <<>>
  /\ doc = <<>>
  /\ parsed = <<>>
  /\ AcqIdle
  /\ MergeIdle
  /\ PersistIdle
  /\ BackoffIdle
  /\ AskIdle
  /\ StartIdle
  /\ ConcIdle

\* download_text: one round of the loop
DownloadTextAttempt ==
  /\ rfn = "download_text"
  /\ rpc = "loop"
  /\ rdelays # <<>>
  /\ \E resp \in DownloadResponses :
       IF resp = "ok"
       THEN /\ rlog' = Append(rlog, Req(rctx.seq, rctx.at, resp))
            /\ rout' = Returned(<<"text">>)
            /\ rpc' = "done"
            /\ UNCHANGED rdelays
       ELSE /\ rlog' = rlog \o <<Req(rctx.seq, rctx.at, resp),
                                 Slept(rctx.seq, rctx.at, Head(rdelays))>>
            /\ rdelays' = Tail(rdelays)
            /\ IF Tail(rdelays) = <<>>
               THEN rout' = Returned(None) /\ rpc' = "done"
               ELSE UNCHANGED <<rout, rpc>>
  /\ UNCHANGED <<rfn, rctx, backoffVars, askVars, langVars, parseVars, acqVars,
                 mergeVars, persistVars, startVars, concVars>>

\* channels_list: one round of the loop
ChannelsListAttempt ==
  /\ rfn = "channels_list"
  /\ rpc = "loop"
  /\ rdelays # <<>>
  /\ \E resp \in ListResponses :
       CASE resp = "ok" ->
              /\ rlog' = Append(rlog, Req(rctx.seq, rctx.at, resp))
              /\ rout' = Returned(Append(rout[1].value, rctx.at))
              /\ rpc' = "done"
              /\ UNCHANGED rdelays
         [] resp = "malformed" ->
              /\ rlog' = Append(rlog, Req(rctx.seq, rctx.at, resp))
              /\ rout' = Raised(rout[1].value)
              /\ rpc' = "done"
              /\ UNCHANGED rdelays
         [] OTHER ->
              /\ rlog' = rlog \o <<Req(rctx.seq, rctx.at, resp),
                                   Slept(rctx.seq, rctx.at, Head(rdelays))>>
              /\ rdelays' = Tail(rdelays)
              /\ IF Tail(rdelays) = <<>>
                 THEN rout' = Returned(rout[1].value) /\ rpc' = "done"
                 ELSE UNCHANGED <<rout, rpc>>
  /\ UNCHANGED <<rfn, rctx, backoffVars, askVars, langVars, parseVars, acqVars,
                 mergeVars, persistVars, startVars, concVars>>

\* videos_list trying the chunk at hand again from the start
VideosListSameChunk(yielded) ==
  /\ rctx' = RetryCtx(rctx.n, rctx.at, rctx.seq, Absent)
  /\ rdelays' = backoff_sequence(DefaultMaxTries, DefaultBase, DefaultCap, DefaultFactor)
  /\ rout' = Running(yielded)
  /\ UNCHANGED rpc

\* videos_list after the retry loop of a chunk has ended with the rows
\* yielded so far: the next chunk with a new backoff sequence, or the end
VideosListNextChunk(yielded) ==
  IF rctx.at < rctx.n
  THEN /\ rctx' = RetryCtx(rctx.n, rctx.at + 1, rctx.seq + 1, Absent)
       /\ rdelays' = backoff_sequence(DefaultMaxTries, DefaultBase, DefaultCap, DefaultFactor)
       /\ rout' = Running(yielded)
       /\ UNCHANGED rpc
  ELSE /\ rout' = Returned(yielded)
       /\ rpc' = "done"
       /\ UNCHANGED <<rctx, rdelays>>

\* videos_list: the empty id list has no chunk
VideosListEmpty ==
  /\ rfn = "videos_list"
  /\ rpc = "loop"
  /\ rctx.n = 0
  /\ rout' = Returned(<<>>)
  /\ rpc' = "done"
  /\ UNCHANGED <<rfn, rctx, rdelays, rlog, backoffVars, askVars, langVars,
                 parseVars, acqVars, mergeVars, persistVars, startVars, concVars>>

\* videos_list: one round of the loop of one chunk
VideosListAttempt ==
  /\ rfn = "videos_list"
  /\ rpc = "loop"
  /\ rctx.n > 0
  /\ rdelays # <<>>
  /\ \E resp \in ListResponses :
       CASE resp = "ok" ->
              /\ rlog' = Append(rlog, Req(rctx.seq, rctx.at, resp))
              /\ VideosListNextChunk(Append(rout[1].value, rctx.at))
         [] resp = "malformed" ->
              /\ rlog' = Append(rlog, Req(rctx.seq, rctx.at, resp))
              /\ rout' = Raised(rout[1].value)
              /\ rpc' = "done"
              /\ UNCHANGED <<rctx, rdelays>>
         [] OTHER ->
              /\ rlog' = rlog \o <<Req(rctx.seq, rctx.at, resp),
                                   Slept(rctx.seq, rctx.at, Head(rdelays))>>
              /\ IF Tail(rdelays) = <<>>
                 THEN VideosListNextChunk(rout[1].value)
                 ELSE /\ rdelays' = Tail(rdelays)
                      /\ UNCHANGED <<rctx, rout, rpc>>
  /\ UNCHANGED <<rfn, backoffVars, askVars, langVars, parseVars, acqVars,
                 mergeVars, persistVars, startVars, concVars>>

\* playlist_items after the retry loop of a page has ended with token as it
\* stands: "if not token: return", else the next turn of "while True"
PlaylistItemsNextTurn(token, yielded) ==
  IF token = Absent
  THEN /\ rout' = Returned(yielded)
       /\ rpc' = "done"
       /\ rctx' = RetryCtx(rctx.n, rctx.at, rctx.seq, token)
       /\ UNCHANGED rdelays
  ELSE /\ rctx' = RetryCtx(rctx.n, token[1], rctx.seq + 1, token)
       /\ rdelays' = backoff_sequence(DefaultMaxTries, DefaultBase, DefaultCap, DefaultFactor)
       /\ rout' = Running(yielded)
       /\ UNCHANGED rpc

\* playlist_items: one round of the retry loop of one page.  The page asked
\* for is the first one without a token, else the one the token names; the
\* response to page p carries nextPageToken unless p is the last page.
PlaylistItemsAttempt ==
  /\ rfn = "playlist_items"
  /\ rpc = "loop"
  /\ rdelays # <<>>
  /\ rctx.seq <= MaxSequences
  /\ \E resp \in ListResponses :
       CASE resp = "ok" ->
              /\ rlog' = Append(rlog, Req(rctx.seq, rctx.at, resp))
              /\ PlaylistItemsNextTurn(
                   IF rctx.at < rctx.n THEN Some(rctx.at + 1) ELSE Absent,
                   Append(rout[1].value, rctx.at))
         [] resp = "malformed" ->
              /\ rlog' = Append(rlog, Req(rctx.seq, rctx.at, resp))
              /\ rout' = Raised(rout[1].value)
              /\ rpc' = "done"
              /\ UNCHANGED <<rctx, rdelays>>
         [] OTHER ->
              /\ rlog' = rlog \o <<Req(rctx.seq, rctx.at, resp),
                                   Slept(rctx.seq, rctx.at, Head(rdelays))>>
              /\ IF Tail(rdelays) = <<>>
                 THEN PlaylistItemsNextTurn(rctx.token, rout[1].value)
                 ELSE /\ rdelays' = Tail(rdelays)
                      /\ UNCHANGED <<rctx, rout, rpc>>
  /\ UNCHANGED <<rfn, backoffVars, askVars, langVars, parseVars, acqVars,
                 mergeVars, persistVars, startVars, concVars>>

NextRetry ==
  \/ DownloadTextAttempt
  \/ ChannelsListAttempt
  \/ VideosListEmpty
  \/ VideosListAttempt
  \/ PlaylistItemsAttempt

SpecRetry == InitRetry /\ [][NextRetry]_vars

(***************************************************************************)
(* The /ask handler (app/main.py).  A text is a sequence of its pieces; a  *)
(* column that can be NULL is Absent or Some(value).  lang_filter and      *)
(* exclude_paid_ads go through str() and bool(), which accept every value, *)
(* and are left out of the payload.                                        *)
(***************************************************************************)

\* Bound: the rows a retrieval query returns
MaxCandidates == 2

\* payload.get("question"): missing, empty, blank, or a question
Questions == {Absent, Some(<<>>), Some(<<" ">>), Some(<<"q">>), Some(<<" ", "q", "\n">>)}

\* payload.get of a numeric filter: missing, a number or a text of digits,
\* or a text int() does not accept
FilterValues == {"absent", "number", "text"}

Payloads ==
  [question : Questions, min_views : FilterValues, min_subs : FilterValues,
   top_k : FilterValues]

\* A row of rag_candidates_semantic, the columns the handler reads
CandidateRow(hotel_norm, aspect, sentiment, review_summary, evidence_sec) ==
  [hotel_norm |-> hotel_norm, aspect |-> aspect, sentiment |-> sentiment,
   review_summary |-> review_summary, yt_link |-> Some(<<"l">>),
   video_title |-> Some(<<"t">>), channel_title |-> Some(<<"c">>),
   evidence_sec |-> evidence_sec]

CandidateRows ==
  {CandidateRow(Some(<<"H">>), Some(<<"a">>), Some(<<"p">>), Some(<<"r">>), Some(75)),
   CandidateRow(Absent, Absent, Absent, Absent, Absent)}

\* What the retrieval query can return: an exception or its rows
RetrievalResults ==
  {[k |-> "raise", rows |-> <<>>]} \cup
  {[k |-> "rows", rows |-> rs] : rs \in UNION {[1..n -> CandidateRows] : n \in 0..MaxCandidates}}

\* What the generation query can return: an exception, no row, a row whose
\* summary is a text, a row whose summary is NULL
GenerationResults ==
  {[k |-> "raise", rows |-> <<>>],
   [k |-> "rows", rows |-> <<>>],
   [k |-> "rows", rows |-> <<[summary |-> Some(<<" ", "s", "\n">>)]>>],
   [k |-> "rows", rows |-> <<[summary |-> Absent]>>]}

\* The summary of an answer without a text
EmptySummary == <<>>

\* summary_text of a request without candidates
NoCandidatesSummary == <<"No review candidates matched your question or filters.">>

\* JSONResponse({"summary": summary_text, "citations": citations})
JSONResponse(summary, citations) ==
  <<[status |-> 200, detail |-> "", summary |-> summary, citations |-> citations]>>

\* raise HTTPException(status_code=500, detail=f"{type(e).__name__}: {e}")
HTTPException500(kind) ==
  <<[status |-> 500, detail |-> kind, summary |-> <<>>, citations |-> <<>>]>>

\* str(payload.get("question") or "").strip()
QText(payload) == Strip(Get(payload.question, <<>>), Whitespace)

\* int(payload.get(...) or default) raises on one of the numeric filters
FilterRaises(payload) ==
  \/ payload.min_views = "text"
  \/ payload.min_subs = "text"
  \/ payload.top_k = "text"

\* The citation of one row; "--" stands for the em dash of the format string
Citation(r) ==
  [review |-> Strip(Get(r.hotel_norm, <<>>) \o <<" ", "--", " ">> \o Get(r.aspect, <<>>)
                      \o <<":", " ">> \o Get(r.review_summary, <<>>), Whitespace),
   link |-> r.yt_link,
   video_title |-> r.video_title,
   channel_title |-> r.channel_title,
   evidence_sec |-> Get(r.evidence_sec, 0)]

Citations(rows) == [i \in 1..Len(rows) |-> Citation(rows[i])]

InitAsk ==
  /\ apc = "start"
  /\ areq \in {<<p>> : p \in Payloads}
  /\ aqueries = <<>>
  /\ arows = <<>>
  /\ aresp = <<>>
  /\ langIn = <<>>
  /\ langOut = <<>>
  /\ doc = <<>>
  /\ parsed = <<>>
  /\ AcqIdle
  /\ MergeIdle
  /\ PersistIdle
  /\ RetryIdle
  /\ BackoffIdle
  /\ StartIdle
  /\ ConcIdle

\* ask, up to the result of the retrieval query
AskRetrieve ==
  /\ apc = "start"
  /\ CASE FilterRaises(areq[1]) ->
            /\ aresp' = HTTPException500("ValueError")
            /\ apc' = "done"
            /\ UNCHANGED <<aqueries, arows>>
       [] ~FilterRaises(areq[1]) /\ QText(areq[1]) = <<>> ->
            /\ aresp' = HTTPException500("HTTPException")
            /\ apc' = "done"
            /\ UNCHANGED <<aqueries, arows>>
       [] OTHER ->
            /\ aqueries' = Append(aqueries, "retrieval")
            /\ \E res \in RetrievalResults :
                 IF res.k = "raise"
                 THEN /\ aresp' = HTTPException500("retrieval")
                      /\ apc' = "done"
                      /\ UNCHANGED arows
                 ELSE /\ arows' = res.rows
                      /\ apc' = "retrieved"
                      /\ UNCHANGED aresp
  /\ UNCHANGED <<areq, retryVars, backoffVars, langVars, parseVars, acqVars,
                 mergeVars, persistVars, startVars, concVars>>

\* ask answering without the else branch: the generation query is issued
\* whatever the rows are
AskSummarizeAlways ==
  /\ apc = "retrieved"
  /\ apc' = "done"
  /\ aqueries' = Append(aqueries, "generation")
  /\ \E res \in GenerationResults :
       CASE res.k = "raise" -> aresp' = HTTPException500("generation")
         [] res.k = "rows" /\ res.rows = <<>> ->
              aresp' = JSONResponse(<<>>, Citations(arows))
         [] res.k = "rows" /\ res.rows # <<>> /\ res.rows[1].summary = Absent ->
              aresp' = HTTPException500("AttributeError")
         [] OTHER ->
              aresp' = JSONResponse(Strip(res.rows[1].summary[1], Whitespace),
                                    Citations(arows))
  /\ UNCHANGED <<areq, arows, retryVars, backoffVars, langVars, parseVars,
                 acqVars, mergeVars, persistVars, startVars, concVars>>

\* ask, from the rows of the retrieval query to the response
AskSummarize ==
  /\ apc = "retrieved"
  /\ apc' = "done"
  /\ IF arows = <<>>
     THEN /\ aresp' = JSONResponse(NoCandidatesSummary, Citations(arows))
          /\ UNCHANGED aqueries
     ELSE /\ aqueries' = Append(aqueries, "generation")
          /\ \E res \in GenerationResults :
               CASE res.k = "raise" -> aresp' = HTTPException500("generation")
                 [] res.k = "rows" /\ res.rows = <<>> ->
                      aresp' = JSONResponse(<<>>, Citations(arows))
                 [] res.k = "rows" /\ res.rows # <<>> /\ res.rows[1].summary = Absent ->
                      aresp' = HTTPException500("AttributeError")
                 [] OTHER ->
                      aresp' = JSONResponse(Strip(res.rows[1].summary[1], Whitespace),
                                            Citations(arows))
  /\ UNCHANGED <<areq, arows, retryVars, backoffVars, langVars, parseVars,
                 acqVars, mergeVars, persistVars, startVars, concVars>>

NextAsk ==
  \/ AskRetrieve
  \/ AskSummarize

SpecAsk == InitAsk /\ [][NextAsk]_vars

(***************************************************************************)
(* Two upsert_subtitles_raw operations on one destination table            *)
(* (src/yt_ingest/bq_client.py).  Both stage their rows in the table       *)
(* SUBTITLES_RAW_TMP; each warehouse call is one step.                     *)
(***************************************************************************)
Ops == {"A", "B"}

\* The rows the two operations are called with
ConcBatches ==
  [ A : { <<RawRow("v1", "en", 1)>>, <<RawRow("v1", Null, 1)>> },
    B : { <<>>, <<RawRow("v1", "en", 2)>>, <<RawRow("v2", "en", 2), RawRow("v1", Null, 2)>> } ]

\* What a merge read: nothing yet, the rows of the staging table, or no table
NotRead == [k |-> "none", rows |-> <<>>]
ReadRows(rows) == [k |-> "rows", rows |-> rows]
ReadNotFound == [k |-> "notfound", rows |-> <<>>]

InitConc ==
  /\ ubatch \in ConcBatches
  /\ upc = [o \in Ops |-> "start"]
  /\ utmp = Absent
  /\ udest \in {<<>>, <<RawInsert(RawRow("v1", "en", 1))>>}
  /\ uread = [o \in Ops |-> NotRead]
  /\ langIn = <<>>
  /\ langOut = <<>>
  /\ doc = <<>>
  /\ parsed = <<>>
  /\ AcqIdle
  /\ MergeIdle
  /\ PersistIdle
  /\ RetryIdle
  /\ BackoffIdle
  /\ AskIdle
  /\ StartIdle

\* if not rows: return
ConcReturnEmpty(o) ==
  /\ upc[o] = "start"
  /\ ubatch[o] = <<>>
  /\ upc' = [upc EXCEPT ![o] = "done"]
  /\ UNCHANGED <<ubatch, utmp, udest, uread, langVars, parseVars, acqVars, mergeVars,
                 persistVars, retryVars, backoffVars, askVars, startVars>>

\* _load_tmp: client.delete_table(tmp_table_id, not_found_ok=True)
ConcLoadTmpDelete(o) ==
  /\ upc[o] = "start"
  /\ ubatch[o] # <<>>
  /\ utmp' = Absent
  /\ upc' = [upc EXCEPT ![o] = "load"]
  /\ UNCHANGED <<ubatch, udest, uread, langVars, parseVars, acqVars, mergeVars,
                 persistVars, retryVars, backoffVars, askVars, startVars>>

\* _load_tmp: the load job with WRITE_TRUNCATE, which makes the table if it
\* is not there and replaces what it holds
ConcLoadTmpLoad(o) ==
  /\ upc[o] = "load"
  /\ utmp' = Some(ubatch[o])
  /\ upc' = [upc EXCEPT ![o] = "merge"]
  /\ UNCHANGED <<ubatch, udest, uread, langVars, parseVars, acqVars, mergeVars,
                 persistVars, retryVars, backoffVars, askVars, startVars>>

\* The staging table as the merge of operation o sees it
SharedStaging(o) == utmp

\* client.query(query).result(): the MERGE from the staging table
ConcMerge(o) ==
  /\ upc[o] = "merge"
  /\ IF SharedStaging(o) = Absent
     THEN /\ uread' = [uread EXCEPT ![o] = ReadNotFound]
          /\ upc' = [upc EXCEPT ![o] = "raised"]
          /\ UNCHANGED udest
     ELSE \E r \in {upsert_subtitles_raw(udest, SharedStaging(o)[1])} :
            /\ uread' = [uread EXCEPT ![o] = ReadRows(SharedStaging(o)[1])]
            /\ udest' = r.rows
            /\ upc' = [upc EXCEPT ![o] = IF r.raised THEN "raised" ELSE "delete"]
  /\ UNCHANGED <<ubatch, utmp, langVars, parseVars, acqVars, mergeVars,
                 persistVars, retryVars, backoffVars, askVars, startVars>>

\* client.delete_table(table + "_TMP", not_found_ok=True)
ConcDeleteTmp(o) ==
  /\ upc[o] = "delete"
  /\ utmp' = Absent
  /\ upc' = [upc EXCEPT ![o] = "done"]
  /\ UNCHANGED <<ubatch, udest, uread, langVars, parseVars, acqVars, mergeVars,
                 persistVars, retryVars, backoffVars, askVars, startVars>>

NextConc ==
  \/ \E o \in Ops : ConcReturnEmpty(o)
  \/ \E o \in Ops : ConcLoadTmpDelete(o)
  \/ \E o \in Ops : ConcLoadTmpLoad(o)
  \/ \E o \in Ops : ConcMerge(o)
  \/ \E o \in Ops : ConcDeleteTmp(o)

SpecConc == InitConc /\ [][NextConc]_vars

(***************************************************************************)
(* The start of the ingestion entry points: scripts/ingest_videoinfo.main, *)
(* ingest/load_to_bq.main and ingest/p02_fetch_videos.main.  The log holds *)
(* every call that goes over the network; a call that writes to the        *)
(* warehouse is a mutation.                                                *)
(***************************************************************************)
Effect(kind, op) == [kind |-> kind, op |-> op]

\* The entry point and what it is started on: the --target of load_to_bq
\* and whether its file under out/ holds rows
Entries ==
  {[fn |-> "ingest_videoinfo", target |-> "", rows |-> FALSE],
   [fn |-> "p02_fetch_videos", target |-> "", rows |-> FALSE]}
    \cup [fn : {"load_to_bq"}, target : {"channels", "videos", "subtitles"}, rows : BOOLEAN]

\* os.getenv of the API key the entry point reads (YOUTUBE_API_KEY,
\* YT_API_KEY) and of GCP_PROJECT_ID: set or not
Envs == [key : BOOLEAN, project : BOOLEAN]

\* The dataset and the table SUBTITLES_RAW: there or not
Warehouses == {w \in [dataset : BOOLEAN, table : BOOLEAN] : w.table => w.dataset}

InitStart ==
  /\ sentry \in Entries
  /\ senv \in Envs
  /\ swh \in Warehouses
  /\ spc = CASE sentry.fn = "ingest_videoinfo" -> "ensure_tables"
             [] sentry.fn = "load_to_bq" -> "read"
             [] OTHER -> "check"
  /\ slog = <<>>
  /\ langIn = <<>>
  /\ langOut = <<>>
  /\ doc = <<>>
  /\ parsed = <<>>
  /\ AcqIdle
  /\ MergeIdle
  /\ PersistIdle
  /\ RetryIdle
  /\ BackoffIdle
  /\ AskIdle
  /\ ConcIdle

\* A BigQuery call with PROJECT None: bigquery.Client(project=None) raises
\* when the environment names no default project, and no call is made; else
\* the call goes out with the project id "None" and the service rejects it
CallsWithoutProject(op) == {<<>>, <<Effect("network", op)>>}

\* ensure_tables(): get_dataset, create_dataset on NotFound, get_table,
\* create_table on NotFound
EnsureTablesCalls(w) ==
  <<Effect("network", "get_dataset")>>
    \o (IF w.dataset THEN <<>> ELSE <<Effect("mutation", "create_dataset")>>)
    \o <<Effect("network", "get_table")>>
    \o (IF w.table THEN <<>> ELSE <<Effect("mutation", "create_table")>>)

\* ingest_videoinfo.main: ensure_tables()
VideoInfoEnsureTables ==
  /\ sentry.fn = "ingest_videoinfo"
  /\ spc = "ensure_tables"
  /\ IF senv.project
     THEN /\ slog' = slog \o EnsureTablesCalls(swh)
          /\ swh' = [dataset |-> TRUE, table |-> TRUE]
          /\ spc' = "fetch_video_metadata"
     ELSE /\ \E made \in CallsWithoutProject("get_dataset") : slog' = slog \o made
          /\ spc' = "aborted"
          /\ UNCHANGED swh
  /\ UNCHANGED <<sentry, senv, langVars, parseVars, acqVars, mergeVars, persistVars,
                 retryVars, backoffVars, askVars, concVars>>

\* ingest_videoinfo.main: rows = fetch_video_metadata(video_ids), which reads
\* the key, raises RuntimeError without it, else asks videos.list
VideoInfoFetchMetadata ==
  /\ sentry.fn = "ingest_videoinfo"
  /\ spc = "fetch_video_metadata"
  /\ IF senv.key
     THEN /\ slog' = Append(slog, Effect("network", "videos.list"))
          /\ spc' = "upsert_video_info"
     ELSE /\ spc' = "aborted"
          /\ UNCHANGED slog
  /\ UNCHANGED <<sentry, senv, swh, langVars, parseVars, acqVars, mergeVars, persistVars,
                 retryVars, backoffVars, askVars, concVars>>

\* ingest_videoinfo.main: upsert_video_info(rows)
VideoInfoUpsert ==
  /\ sentry.fn = "ingest_videoinfo"
  /\ spc = "upsert_video_info"
  /\ slog' = Append(slog, Effect("mutation", "upsert_video_info"))
  /\ spc' = "returned"
  /\ UNCHANGED <<sentry, senv, swh, langVars, parseVars, acqVars, mergeVars, persistVars,
                 retryVars, backoffVars, askVars, concVars>>

\* load_to_bq.main: the file of the target is read; without rows main returns
LoadRead ==
  /\ sentry.fn = "load_to_bq"
  /\ spc = "read"
  /\ spc' = IF sentry.rows THEN "_load_staging" ELSE "returned"
  /\ UNCHANGED <<sentry, senv, swh, slog, langVars, parseVars, acqVars, mergeVars,
                 persistVars, retryVars, backoffVars, askVars, concVars>>

\* load_to_bq.main: _load_staging(rows), the staging table made and loaded
LoadStaging ==
  /\ sentry.fn = "load_to_bq"
  /\ spc = "_load_staging"
  /\ IF senv.project
     THEN /\ slog' = slog \o <<Effect("mutation", "create_table"), Effect("mutation", "load")>>
          /\ spc' = "merge"
     ELSE /\ \E made \in CallsWithoutProject("create_table") : slog' = slog \o made
          /\ spc' = "aborted"
  /\ UNCHANGED <<sentry, senv, swh, langVars, parseVars, acqVars, mergeVars, persistVars,
                 retryVars, backoffVars, askVars, concVars>>

\* load_to_bq.main: the merge of the target and the delete of the staging table
LoadMergeAndDelete ==
  /\ sentry.fn = "load_to_bq"
  /\ spc = "merge"
  /\ slog' = slog \o <<Effect("mutation", "merge"), Effect("mutation", "delete_table")>>
  /\ spc' = "returned"
  /\ UNCHANGED <<sentry, senv, swh, langVars, parseVars, acqVars, mergeVars, persistVars,
                 retryVars, backoffVars, askVars, concVars>>

\* p02_fetch_videos.main: the two checks after the arguments are parsed
P02Check ==
  /\ sentry.fn = "p02_fetch_videos"
  /\ spc = "check"
  /\ spc' = IF senv.key /\ senv.project THEN "fetch" ELSE "aborted"
  /\ UNCHANGED <<sentry, senv, swh, slog, langVars, parseVars, acqVars, mergeVars,
                 persistVars, retryVars, backoffVars, askVars, concVars>>

\* p02_fetch_videos.main after the checks: the playlists read from the
\* warehouse and, when there are some, the API asked for their videos
P02Fetch ==
  /\ sentry.fn = "p02_fetch_videos"
  /\ spc = "fetch"
  /\ \E uploads \in BOOLEAN :
       slog' = slog \o <<Effect("network", "query")>>
                    \o (IF uploads
                        THEN <<Effect("network", "playlistItems.list"), Effect("network", "query"),
                               Effect("network", "videos.list")>>
                        ELSE <<>>)
  /\ spc' = "returned"
  /\ UNCHANGED <<sentry, senv, swh, langVars, parseVars, acqVars, mergeVars, persistVars,
                 retryVars, backoffVars, askVars, concVars>>

NextStart ==
  \/ VideoInfoEnsureTables
  \/ VideoInfoFetchMetadata
  \/ VideoInfoUpsert
  \/ LoadRead
  \/ LoadStaging
  \/ LoadMergeAndDelete
  \/ P02Check
  \/ P02Fetch

SpecStart == InitStart /\ [][NextStart]_vars

(***************************************************************************)
(* Properties of the acquisition entry points (Spec)                       *)
(***************************************************************************)
\* An exception was caught at this stage
CaughtAt(stage) == \E i \in 1..Len(caught) : caught[i].stage = stage

\* The extraction backend itself raised at this stage
BackendRaisedAt(stage) ==
  \E i \in 1..Len(caught) : caught[i].stage = stage /\ caught[i].err \in ErrMsgs

\* C1: fetch_subs_for_video and get_subtitles always return a value: once an
\* entry point has ended, it has returned and no exception went to the caller.
C1_AlwaysReturns ==
  /\ entry = "fetch" /\ fpc = "done" => fres.status = "returned"
  /\ entry = "get" /\ gpc = "done" => gres.status = "returned"

\* The place of a call in the fixed order of attempts
Rank(c) ==
  CASE c.op = "extract_inline" -> 1
    [] c.op = "extract_urls" -> 2
    [] c.op = "download" /\ c.url.ext = "json3" -> 3
    [] OTHER -> 4

C2_Order ==
  entry = "fetch" =>
    /\ Len(calls) >= 1 => Rank(calls[1]) = 1
    /\ Len(calls) >= 2 => Rank(calls[2]) = 2
    /\ \A i \in 1..Len(calls) : \A j \in 1..Len(calls) : i < j => Rank(calls[i]) < Rank(calls[j])
    /\ \A j \in 1..Len(calls) :
         Rank(calls[j]) = 4 /\ UrlTruthy(fctx.url_json3) => Rank(calls[j - 1]) = 3
    /\ \A i \in 1..Len(calls) : i < Len(calls) => calls[i].n = 0
    /\ Len(calls) >= 1 /\ calls[Len(calls)].n > 0 =>
         /\ fpc = "done"
         /\ fres.status = "returned"
         /\ Len(fres.value.segments) = calls[Len(calls)].n
    /\ fres.status = "returned" /\ Len(fres.value.segments) > 0 =>
         calls[Len(calls)].n = Len(fres.value.segments)

\* C2: the attempts run in the order inline extraction, URL discovery,
\* structured-URL download, cue-URL download; the first attempt whose parse
\* yields a segment returns it, and once fetch_subs_for_video has returned no
\* further extraction or download is made.
C2_AttemptOrder ==
  /\ []C2_Order
  /\ [][entry = "fetch" /\ fres.status = "returned" => calls' = calls]_vars

\* The structured-URL download succeeded third, after two attempts that
\* yielded nothing; a cue-based URL existed and was never downloaded.
C2_Witness ==
  /\ entry = "fetch" /\ fres.status = "returned" /\ fres.via = "json3_url"
  /\ UrlTruthy(fctx.url_vtt)
  /\ Len(calls) = 3
  /\ Len(fres.value.segments) = 2

\* Some call downloaded this URL
Downloaded(url) == \E i \in 1..Len(calls) : calls[i].op = "download" /\ calls[i].url = url

\* C3: an exception in attempt A never keeps attempt B (and the downloads B
\* leads to) from running, and an exception while decoding or parsing the
\* structured payload never keeps the cue-based download from running when a
\* cue-based URL exists.
C3_ExceptionIsolation ==
  entry = "fetch" =>
    /\ CaughtAt("A") =>
         \/ fpc = "B" /\ fres.status = "pending"
         \/ Len(calls) >= 2 /\ calls[2].op = "extract_urls"
    /\ CaughtAt("A") /\ UrlTruthy(fctx.url_json3) =>
         fpc = "json3" \/ Downloaded(fctx.url_json3)
    /\ CaughtAt("A") /\ ~UrlTruthy(fctx.url_json3) /\ UrlTruthy(fctx.url_vtt) =>
         fpc = "vtt" \/ Downloaded(fctx.url_vtt)
    /\ CaughtAt("json3") /\ UrlTruthy(fctx.url_vtt) =>
         \/ fpc = "vtt" /\ fres.status = "pending"
         \/ Downloaded(fctx.url_vtt)

\* Attempt A raised, the structured payload did not decode, and the cue-based
\* download ran and returned a track.
C3_Witness ==
  /\ entry = "fetch"
  /\ CaughtAt("A") /\ CaughtAt("json3")
  /\ Len(calls) = 4
  /\ calls[4].url = fctx.url_vtt
  /\ fres.via = "vtt"

C5_PoolChoice ==
  entry = "fetch" /\ fctx.discovered =>
    /\ Len(fctx.subs) > 0 =>
         /\ fctx.src = "manual"
         /\ InSeq(fctx.k, fctx.subs)
         /\ \A i \in 1..Len(calls) :
              calls[i].op = "download" =>
                calls[i].url.src = "manual" /\ calls[i].url.lang = fctx.k
    /\ Len(fctx.subs) = 0 /\ Len(fctx.autos) > 0 =>
         /\ fctx.src = "auto"
         /\ InSeq(fctx.k, fctx.autos)
         /\ \A i \in 1..Len(calls) :
              calls[i].op = "download" =>
                calls[i].url.src = "auto" /\ calls[i].url.lang = fctx.k
    /\ Len(fctx.subs) = 0 /\ Len(fctx.autos) = 0 =>
         /\ fres.status = "returned"
         /\ fres.value = NoCaptions
         /\ \A i \in 1..Len(calls) : calls[i].op # "download"

\* The human-authored mapping holds only a language outside the preference,
\* the auto-generated one the preferred language: the human-authored track
\* was downloaded, yielded nothing, and ([], None) was returned.
C5_Witness ==
  /\ entry = "fetch" /\ fctx.discovered
  /\ fctx.subs = <<fr>> /\ fctx.autos = <<en>>
  /\ fres.status = "returned" /\ fres.value = NoCaptions
  /\ \E i \in 1..Len(calls) : calls[i].op = "download" /\ calls[i].url.lang = fr

\* No key matches the code exactly, as a region variant or as its
\* auto-generated form
NoKeyFor(keys, code) ==
  \A i \in 1..Len(keys) :
    /\ keys[i] # code
    /\ keys[i] # <<"a", ".">> \o code
    /\ ~StartsWith(keys[i], code \o <<"-">>)

NoMatch(keys) == NoKeyFor(keys, DefaultLang) /\ NoKeyFor(keys, DefaultFallback)

\* The mapping attempt B selects from
PoolKeys == IF Len(fctx.subs) > 0 THEN fctx.subs ELSE fctx.autos

SegmentTexts(segments) == [i \in 1..Len(segments) |-> segments[i].text]

\* The track fetch_subs_for_video returned came from the cue-based download
ReturnedCueTrack == fres.via = "vtt"

\* C11: the full text of every track an entry point returns is the
\* single-space join of the texts of its segments, in segment order, cut to
\* 1,000,000 characters, and is never longer than 1,000,000 characters.
C11_FullTextOfTrack ==
  /\ (entry = "fetch" /\ fpc = "done" /\ ~IsAbsent(fres.value.full))
       => LET full_text == fres.value.full[1].full_text
              texts == SegmentTexts(fres.value.segments)
          IN IF ReturnedCueTrack
             THEN /\ full_text = TokSlice(Join(texts, Tok("sp")), FullTextCap)
                  /\ TokPyLen(full_text) <= FullTextCap
             ELSE /\ full_text = Slice(Join(texts, " "), FullTextCap)
                  /\ PyLen(full_text) <= FullTextCap
  /\ (entry = "get" /\ gpc = "done" /\ gres.status = "returned"
        /\ ~IsAbsent(gres.row[1].subtitle_text))
       => LET full_text == gres.row[1].subtitle_text[1]
              texts == SegmentTexts(gres.row[1].snippets)
          IN /\ full_text = Slice(Join(texts, " "), FullTextCap)
             /\ PyLen(full_text) <= FullTextCap

(***************************************************************************)
(* Properties of the language selection policy (SpecLang)                  *)
(***************************************************************************)
\* The three checks of the policy for one code, stated without the loop
PolicyChoice(keys, code) ==
  LET variant == { i \in 1..Len(keys) : StartsWith(keys[i], code \o <<"-">>) }
  IN IF InSeq(code, keys) THEN code
     ELSE IF variant # {} THEN keys[CHOOSE i \in variant : \A j \in variant : i <= j]
     ELSE IF InSeq(<<"a", ".">> \o code, keys) THEN <<"a", ".">> \o code
     ELSE None

\* C6: best_lang_key returns the first match in the order exact pref, first
\* key starting with pref + "-", "a." + pref, then the same three for fb; so a
\* match for pref wins over every match for fb, and None is returned only
\* when neither code matches.
C6_PolicyOrder ==
  langOut # <<>> =>
    LET p == PolicyChoice(langIn.keys, langIn.pref)
        f == PolicyChoice(langIn.keys, langIn.fb)
    IN langOut[1] = IF p # None THEN p ELSE f

\* A region variant of pref is returned although the auto-generated form of
\* pref (earlier in the mapping) and the fallback code are both present.
C6_Witness ==
  /\ langOut = <<enUS>>
  /\ langIn.pref = en
  /\ langIn.keys = <<aen, ko, enUS>>

(***************************************************************************)
(* Properties of the caption parsers (SpecParse)                           *)
(***************************************************************************)
\* The events the claim says are dropped: fragment list absent or empty, or
\* concatenated text empty after stripping.
ClaimDropped(ev) ==
  \/ IsAbsent(ev.segs)
  \/ Len(ev.segs[1]) = 0
  \/ \A i \in 1..Len(Concat(ev.segs[1])) : Concat(ev.segs[1])[i] \in Whitespace

KeptBy(events, Dropped(_)) == SelectSeq(events, LAMBDA ev : ~Dropped(ev))

\* The segments of parse_json3_events are the events of kept, in order,
\* numbered from 0 without a gap.
Json3SegsAre(segs, kept) ==
  /\ Len(segs) = Len(kept)
  /\ \A n \in 1..Len(segs) :
       /\ segs[n].idx = n - 1
       /\ segs[n].start_sec = Get(kept[n].tStartMs, 0)
       /\ segs[n].dur_sec = Get(kept[n].dDurationMs, 0)
       /\ segs[n].text = Strip(Replace(Concat(kept[n].segs[1]), "\n", " "), Whitespace)

\* The snippets of _events_to_snippets are the events of kept, in order,
\* numbered from 0 without a gap.
SnippetsAre(out, kept) ==
  /\ Len(out) = Len(kept)
  /\ \A n \in 1..Len(out) :
       /\ out[n].idx = n - 1
       /\ out[n].start = Get(kept[n].tStartMs, 0)
       /\ out[n].duration = Get(kept[n].dDurationMs, 0)
       /\ out[n].text = Strip(Concat(kept[n].segs[1]), Whitespace)

\* C8 as stated: both structured-event parsers drop exactly the events with
\* no fragments or with empty stripped text, keep the others in order and
\* number them 0..n-1.
C8_AsStated ==
  /\ parsed.json3 # <<>> =>
       Json3SegsAre(parsed.json3[1].segs, KeptBy(doc.events, ClaimDropped))
  /\ parsed.snippets # <<>> =>
       SnippetsAre(parsed.snippets[1], KeptBy(doc.events, ClaimDropped))

SnippetDropped(ev) == ClaimDropped(ev) \/ IsAbsent(ev.tStartMs)

\* C8 (amended): parse_json3_events drops exactly the events with no
\* fragments or with empty stripped text; _events_to_snippets drops those and
\* also every event whose tStartMs is missing; each keeps the remaining
\* events in order and numbers them 0..n-1 with no gap.
C8_DropAndNumber ==
  /\ parsed.json3 # <<>> =>
       Json3SegsAre(parsed.json3[1].segs, KeptBy(doc.events, ClaimDropped))
  /\ parsed.snippets # <<>> =>
       SnippetsAre(parsed.snippets[1], KeptBy(doc.events, SnippetDropped))

\* Both parsers ran on two events with text, the first without tStartMs:
\* parse_json3_events kept both, _events_to_snippets dropped the first and
\* gave the second index 0.
C8_Witness ==
  /\ parsed.json3 # <<>> /\ parsed.snippets # <<>>
  /\ Len(doc.events) = 2
  /\ IsAbsent(doc.events[1].tStartMs)
  /\ Len(parsed.json3[1].segs) = 2
  /\ Len(parsed.snippets[1]) = 1
  /\ parsed.snippets[1][1].idx = 0

\* The cleaned lines of the cue text
CueLines == [i \in 1..Len(doc.lines) |-> VttCleanLine(doc.lines[i])]

\* Line i is a timestamp-range line
IsCueLine(i) == Len(CueLines[i]) > 0 /\ CueLines[i][1].t = "ts"

\* The first line after i that is blank or holds an arrow (or the end)
CueBodyStop(i) ==
  CHOOSE j \in (i + 1)..(Len(CueLines) + 1) :
    /\ j = Len(CueLines) + 1 \/ Len(CueLines[j]) = 0 \/ HasArrow(CueLines[j])
    /\ \A k \in (i + 1)..(j - 1) : Len(CueLines[k]) > 0 /\ ~HasArrow(CueLines[k])

\* The body of cue line i, NOTE lines left out, joined with spaces
CueText(i) ==
  LET body == SubSeq(CueLines, i + 1, CueBodyStop(i) - 1)
      kept == SelectSeq(body, LAMBDA ln : ln[1].t # "note")
  IN Strip(Join(kept, Tok("sp")), {Tok("sp"), Tok("tab")})

CueEmitting == { i \in 1..Len(CueLines) : IsCueLine(i) /\ Len(CueText(i)) > 0 }

\* C9: parse_webvtt emits exactly one segment for each timestamp-range line
\* whose body (up to the next blank or arrow line, NOTE lines left out)
\* joins to a non-empty text and none for any other line; the segments are
\* numbered 0..n-1 in source order with duration max(0, end - start).
C9_OneSegmentPerCue ==
  parsed.vtt # <<>> =>
    LET segs == parsed.vtt[1].segs
    IN /\ Len(segs) = Cardinality(CueEmitting)
       /\ \A i \in CueEmitting :
            LET n == Cardinality({ k \in CueEmitting : k < i }) + 1
                start == CueLines[i][1].from[1] * 3600000
                           + CueLines[i][1].from[2] * 60000 + CueLines[i][1].from[3]
                end == CueLines[i][1].to[1] * 3600000
                         + CueLines[i][1].to[2] * 60000 + CueLines[i][1].to[3]
            IN /\ segs[n].idx = n - 1
               /\ segs[n].text = CueText(i)
               /\ segs[n].start_sec = start
               /\ segs[n].dur_sec = (IF end >= start THEN end - start ELSE 0)

\* The first cue's body is a single NOTE line, ended by the next arrow line:
\* it emits nothing and consumes no index.  The second cue runs backwards
\* (end < start) and is emitted with index 0 and duration 0.
C9_Witness ==
  /\ parsed.vtt # <<>>
  /\ Len(doc.lines) = 4
  /\ doc.lines[1] = <<TsFwd>>
  /\ doc.lines[2] = <<Tok("note"), Tok("sp"), Tok("w")>>
  /\ doc.lines[3] = <<TsBack>>
  /\ Len(parsed.vtt[1].segs) = 1
  /\ parsed.vtt[1].segs[1].idx = 0
  /\ parsed.vtt[1].segs[1].dur_sec = 0
  /\ parsed.vtt[1].segs[1].start_sec = 60000

\* The CaptionSegment invariant of one emitted segment
SegmentOk(text, start, dur) ==
  /\ Len(text) > 0
  /\ \A i \in 1..Len(text) : text[i] # "\n"
  /\ start >= 0
  /\ dur >= 0

\* C10: every segment emitted by parse_json3_events, _events_to_snippets and
\* parse_webvtt has a non-empty text without newline, a non-negative start
\* and a non-negative duration.
C10_SegmentInvariant ==
  /\ parsed.json3 # <<>> =>
       \A n \in 1..Len(parsed.json3[1].segs) :
         LET g == parsed.json3[1].segs[n] IN SegmentOk(g.text, g.start_sec, g.dur_sec)
  /\ parsed.snippets # <<>> =>
       \A n \in 1..Len(parsed.snippets[1]) :
         LET g == parsed.snippets[1][n] IN SegmentOk(g.text, g.start, g.duration)
  /\ parsed.vtt # <<>> =>
       \A n \in 1..Len(parsed.vtt[1].segs) :
         LET g == parsed.vtt[1].segs[n] IN SegmentOk(g.text, g.start_sec, g.dur_sec)

(***************************************************************************)
(* Properties of the upsert loader (SpecMerge)                             *)
(***************************************************************************)
\* The row a staged row stands for in the destination: the staged values,
\* the timestamp strings as TIMESTAMP values
StagedAsIs(s) == s
StagedVideo(s) == [s EXCEPT !.published_at = Timestamp(s.published_at)]
StagedRaw(s) == [s EXCEPT !.ingested_at = Timestamp(s.ingested_at)]

ChannelsNonKey == {"channel_title", "uploads_playlist", "channel_subs", "country"}
VideosNonKey ==
  { "channel_id", "title", "description", "published_at", "view_count", "like_count", "tags",
    "default_lang", "duration_sec" }
SegmentsNonKey == {"start_sec", "dur_sec", "text"}
FullNonKey == {"full_text"}
RawNonKey == {"subtitle_text", "source", "snippet_count", "snippets", "errors", "ingested_at"}

\* One merge took the table from before to after as an upsert does, with
\* on[i, j] the match of the i-th destination row and the j-th staged row
\* and staged[j] the row the j-th staged row stands for: every destination
\* row a staged row matches holds the staged values in all non-key columns,
\* every staged row without a match was inserted whole
UpsertHolds(before, after, on, staged, nonKey) ==
  /\ Len(after) >= Len(before)
  /\ \A j \in 1..Len(staged) :
       IF \E i \in 1..Len(before) : on[i, j]
       THEN \A i \in 1..Len(before) : on[i, j] => \A c \in nonKey : after[i][c] = staged[j][c]
       ELSE \E i \in (Len(before) + 1)..Len(after) : after[i] = staged[j]

\* The same for one destination table of one merge call
UpsertHoldsIn(call, table) ==
  LET T == call.before[table]
      S == CASE table = "subtitles_segments" -> batch.seg
             [] table = "subtitles_full" -> batch.full
             [] OTHER -> batch.rows
      on == [i \in 1..Len(T), j \in 1..Len(S) |->
               CASE table = "channels" -> ChannelsOn(T[i], S[j])
                 [] table = "videos" -> VideosOn(T[i], S[j])
                 [] table = "subtitles_segments" -> SegmentsOn(T[i], S[j])
                 [] table = "subtitles_full" -> FullOn(T[i], S[j])
                 [] table = "SUBTITLES_RAW" -> _build_merge_condition_from_keys(T[i], S[j])]
      staged == [j \in 1..Len(S) |->
                  CASE table = "videos" -> StagedVideo(S[j])
                    [] table = "SUBTITLES_RAW" -> StagedRaw(S[j])
                    [] OTHER -> StagedAsIs(S[j])]
      nonKey == CASE table = "channels" -> ChannelsNonKey
                  [] table = "videos" -> VideosNonKey
                  [] table = "subtitles_segments" -> SegmentsNonKey
                  [] table = "subtitles_full" -> FullNonKey
                  [] table = "SUBTITLES_RAW" -> RawNonKey
  IN UpsertHolds(T, call.after[table], on, staged, nonKey)

\* The destination tables a merge function writes
TablesOf(target) ==
  CASE target = "channels" -> {"channels"}
    [] target = "videos" -> {"videos"}
    [] target = "subtitles" -> {"subtitles_segments", "subtitles_full"}
    [] target = "subtitles_raw" -> {"SUBTITLES_RAW"}
    [] OTHER -> {}

\* C17: in every merge that completes, for every destination table, each
\* staged row that matches destination rows on the key columns leaves them
\* holding the staged values in all non-key columns, and each staged row
\* without a match is inserted whole.
C17_UpsertOnMatchAndInsert ==
  \A n \in 1..Len(mlog) :
    ~mlog[n].raised => \A table \in TablesOf(mtarget) : UpsertHoldsIn(mlog[n], table)

\* C18: merging the same batch a second time leaves every destination table
\* as the first merge left it: the second merge inserts no row and changes
\* no value.
C18_UpsertIdempotent ==
  \A n \in 2..Len(mlog) : mlog[n].after = mlog[1].after

(***************************************************************************)
(* Properties of the subtitles pipeline (SpecPersist)                      *)
(***************************************************************************)
\* The (video_id, lang) pairs of the rows of a table or a file
PairsOf(rows) == { <<rows[i].video_id, rows[i].lang>> : i \in 1..Len(rows) }

\* C12: a track is persisted whole or not at all: in the lists of p04's
\* loop, in the files it writes and in the destination tables, also after a
\* load in which a merge failed, the (video_id, lang) pairs that have
\* segment rows are the pairs that have a full-text row.
C12_WholeOrNothing ==
  /\ PairsOf(seg_rows) = PairsOf(full_rows)
  /\ PairsOf(out_files.segments) = PairsOf(out_files.full)
  /\ PairsOf(bq.subtitles_segments) = PairsOf(bq.subtitles_full)

\* The number of non-empty cues of a cue text: the timestamp-range lines
\* whose body, up to the next blank or arrow line and NOTE lines left out,
\* joins to a non-empty text
NonEmptyCues(lines) ==
  LET cl == [i \in 1..Len(lines) |-> VttCleanLine(lines[i])]
      stop(i) == CHOOSE j \in (i + 1)..(Len(cl) + 1) :
                   /\ j = Len(cl) + 1 \/ Len(cl[j]) = 0 \/ HasArrow(cl[j])
                   /\ \A k \in (i + 1)..(j - 1) : Len(cl[k]) > 0 /\ ~HasArrow(cl[k])
      text(i) == Strip(Join(SelectSeq(SubSeq(cl, i + 1, stop(i) - 1), LAMBDA ln : ln[1].t # "note"),
                            Tok("sp")), {Tok("sp"), Tok("tab")})
  IN Cardinality({ i \in 1..Len(cl) : Len(cl[i]) > 0 /\ cl[i][1].t = "ts" /\ Len(text(i)) > 0 })

\* fetch_subs_for_video ran on a video whose only captions are
\* auto-generated English ones in a cue-based encoding, and the download of
\* the cue text succeeded
CueOnlyAutoFetched ==
  /\ entry = "fetch" /\ fpc = "done" /\ fctx.discovered
  /\ fctx.subs = <<>> /\ fctx.autos \in {<<en>>, <<aen>>}
  /\ ~UrlTruthy(fctx.url_json3) /\ UrlTruthy(fctx.url_vtt)
  /\ calls[Len(calls)].op = "download" /\ calls[Len(calls)].url = fctx.url_vtt
  /\ calls[Len(calls)].body.kind = "text"
  /\ NonEmptyCues(calls[Len(calls)].body.lines) > 0

\* get_subtitles ran on such a video
CueOnlyAutoGot ==
  /\ entry = "get" /\ gpc = "done" /\ gctx.info.kind = "info"
  /\ gctx.info.subs = EmptyMap
  /\ gctx.info.autos = [keys |-> <<en>>, entries |-> << <<Encoding("vtt", TRUE)>> >>]

LaterDelaysFollow(d, a) ==
  \A k \in 2..Len(d) : d[k] = Min(d[k - 1] * a.factor, a.cap)

\* C16 as stated: backoff_sequence yields exactly max_tries values, the first
\* equal to base and each later one equal to min(previous * factor, cap).
C16_AsStated ==
  bkOut # <<>> =>
    /\ Len(bkOut[1]) = bkIn[1].max_tries
    /\ (Len(bkOut[1]) >= 1 => bkOut[1][1] = bkIn[1].base)
    /\ LaterDelaysFollow(bkOut[1], bkIn[1])

\* C16: for all max_tries >= 0 and all positive base, cap and factor,
\* backoff_sequence yields exactly max_tries values, the first equal to
\* min(base, cap), which is base when base <= cap, and each later one equal to
\* min(previous * factor, cap).
C16_BackoffSequence ==
  bkOut # <<>> =>
    /\ Len(bkOut[1]) = bkIn[1].max_tries
    /\ (Len(bkOut[1]) >= 1 => bkOut[1][1] = Min(bkIn[1].base, bkIn[1].cap))
    /\ (Len(bkOut[1]) >= 1 /\ bkIn[1].base <= bkIn[1].cap =>
          bkOut[1][1] = bkIn[1].base)
    /\ LaterDelaysFollow(bkOut[1], bkIn[1])

\* A call with a base above the cap that yielded several delays
C16_Witness ==
  /\ bkOut # <<>>
  /\ bkIn[1].base > bkIn[1].cap
  /\ Len(bkOut[1]) >= 2
  /\ bkOut[1][1] = bkIn[1].cap

(***************************************************************************)
(* Properties of the retry loops (SpecRetry)                               *)
(***************************************************************************)

\* The positions of the log that hold a request of retry sequence s
GetsOf(s) == {i \in DOMAIN rlog : rlog[i].e = "get" /\ rlog[i].seq = s}

SequencesLogged == {rlog[i].seq : i \in DOMAIN rlog}

\* The response is a failure the loops retry on
FailedResponse(resp) == resp \notin {"ok", "malformed"}

\* The chunks or pages whose request succeeded, in the order of the log
SucceededAt ==
  [i \in 1..Len(SelectSeq(rlog, LAMBDA ev : ev.resp = "ok")) |->
     SelectSeq(rlog, LAMBDA ev : ev.resp = "ok")[i].at]

\* C14: download_text, channels_list and each chunk of videos_list make at
\* most max_tries (3 by default) requests, make no further request and no
\* sleep after the first successful response, and when the attempts fail end
\* with the empty or partial result (None for download_text, the rows
\* gathered so far for the list fetchers) instead of raising.
C14_RetryLoops ==
  rfn \in {"download_text", "channels_list", "videos_list"} =>
    /\ \A s \in SequencesLogged : Cardinality(GetsOf(s)) <= DefaultMaxTries
    /\ rfn # "videos_list" => SequencesLogged \subseteq {1}
    /\ \A i \in DOMAIN rlog :
         rlog[i].resp = "ok" =>
           \A j \in (i + 1)..Len(rlog) :
             rlog[j].seq # rlog[i].seq /\ rlog[j].at # rlog[i].at
    /\ (rpc = "done" /\ \A i \in DOMAIN rlog : rlog[i].resp # "malformed") =>
         /\ rout[1].kind = "returned"
         /\ rfn = "download_text" =>
              rout[1].value = IF SucceededAt = <<>> THEN None ELSE <<"text">>
         /\ rfn # "download_text" => rout[1].value = SucceededAt

\* videos_list has ended with a partial result: every attempt of one chunk
\* failed, another chunk was fetched
C14_Witness ==
  /\ rfn = "videos_list"
  /\ rpc = "done"
  /\ rout[1].kind = "returned"
  /\ rout[1].value # <<>>
  /\ \E s \in SequencesLogged :
       /\ Cardinality(GetsOf(s)) = DefaultMaxTries
       /\ \A i \in GetsOf(s) : FailedResponse(rlog[i].resp)

\* C15 as stated: the same page of a playlist is never requested in more than
\* one retry sequence of playlist_items.
C15_SamePageOneSequence ==
  rfn = "playlist_items" =>
    \A i, j \in DOMAIN rlog :
      (rlog[i].e = "get" /\ rlog[j].e = "get" /\ rlog[i].at = rlog[j].at) =>
        rlog[i].seq = rlog[j].seq

\* C15 as stated: when the retry sequence of a page is exhausted the
\* generator stops.
C15_StopsWhenExhausted ==
  rfn = "playlist_items" =>
    \A s \in SequencesLogged :
      (/\ Cardinality(GetsOf(s)) = DefaultMaxTries
       /\ \A i \in GetsOf(s) : FailedResponse(rlog[i].resp)) =>
        /\ rpc = "done"
        /\ \A t \in SequencesLogged : t <= s

\* playlist_items stops when the retry sequence of the first page is exhausted
FirstPageExhaustedStops ==
  (/\ rfn = "playlist_items"
   /\ Cardinality(GetsOf(1)) = DefaultMaxTries
   /\ \A i \in GetsOf(1) : FailedResponse(rlog[i].resp)) =>
     rpc = "done" /\ rout = Returned(<<>>) /\ SequencesLogged = {1}

(***************************************************************************)
(* Properties of the /ask handler (SpecAsk)                                *)
(***************************************************************************)

\* The queries of a request are a retrieval query, then at most one
\* generation query
QueriesInOrder == aqueries \in {<<>>, <<"retrieval">>, <<"retrieval", "generation">>}

\* C19 as stated: every /ask request with a non-empty question issues exactly
\* one retrieval query, then exactly one generation query if and only if the
\* retrieval returned at least one row.
C19_AsStated ==
  (apc = "done" /\ QText(areq[1]) # <<>>) =>
    /\ aqueries \in {<<"retrieval">>, <<"retrieval", "generation">>}
    /\ Len(aqueries) = 2 <=> Len(arows) >= 1

\* C19: every /ask request with a non-empty question whose numeric filters
\* (min_views, min_subs, top_k) are missing or accepted by int() issues exactly
\* one retrieval query, then exactly one generation query if and only if the
\* retrieval returned at least one row; a request with a numeric filter that
\* int() rejects issues no query; the generation query never precedes the
\* retrieval query and no request issues more than two queries in total.
C19_QueriesOfARequest ==
  /\ QueriesInOrder
  /\ (apc = "done" /\ QText(areq[1]) # <<>> /\ ~FilterRaises(areq[1])) =>
       /\ aqueries \in {<<"retrieval">>, <<"retrieval", "generation">>}
       /\ Len(aqueries) = 2 <=> Len(arows) >= 1
  /\ (apc = "done" /\ FilterRaises(areq[1])) => aqueries = <<>>

\* A request was answered from the rows of its retrieval query with a
\* generated summary
C19_Witness ==
  /\ apc = "done"
  /\ aqueries = <<"retrieval", "generation">>
  /\ Len(arows) >= 1
  /\ aresp[1].status = 200

\* C20: when the retrieval query of /ask returns zero rows, the response is
\* summary = 'No review candidates matched your question or filters.' with
\* citations = [] and no generation query is issued.
C20_NoCandidates ==
  (apc = "done" /\ aqueries # <<>> /\ arows = <<>> /\ aresp[1].detail # "retrieval") =>
    /\ aresp[1].status = 200
    /\ aresp[1].summary = <<"No review candidates matched your question or filters.">>
    /\ aresp[1].citations = <<>>
    /\ aqueries = <<"retrieval">>

\* A request whose retrieval query returned no row was answered
C20_Witness ==
  /\ apc = "done"
  /\ aqueries = <<"retrieval">>
  /\ arows = <<>>
  /\ aresp[1].status = 200

\* C21 as stated: when the question of an /ask request is missing or blank
\* after stripping, the request is answered with HTTP status 400 and no
\* warehouse query is issued.
C21_BlankQuestionIs400 ==
  (apc = "done" /\ QText(areq[1]) = <<>>) =>
    /\ aresp[1].status = 400
    /\ aqueries = <<>>

\* A request with a missing or blank question issues no warehouse query
BlankQuestionNoQuery ==
  (apc = "done" /\ QText(areq[1]) = <<>>) =>
    /\ aresp[1].status = 500
    /\ aqueries = <<>>

\* C23 as stated: in download_text a sleep followed by another request happens
\* only after a response with status 429, 500 or 503 or after a transient
\* network error; a response with any other error status, such as 404, is
\* never requested again.
C23_RetryOnlyTransient ==
  rfn = "download_text" =>
    \A i \in DOMAIN rlog :
      (rlog[i].e = "get" /\ \E j \in (i + 1)..Len(rlog) : rlog[j].e = "get") =>
        rlog[i].resp \in {"429", "500", "503", "timeout"}

(***************************************************************************)
(* Properties of _pick_json3_track, as get_subtitles calls it (Spec)       *)
(***************************************************************************)

\* The encodings the mapping m holds for lang
TracksOf(m, lang) == IF InSeq(lang, m.keys) THEN m.entries[IndexOf(m.keys, lang)] ELSE <<>>

\* The mapping m holds a json3 encoding for lang
HasJson3(m, lang) == \E i \in DOMAIN TracksOf(m, lang) : TracksOf(m, lang)[i].ext = "json3"

\* The first json3 encoding m holds for lang carries a url
UsableJson3(m, lang) ==
  \E i \in DOMAIN TracksOf(m, lang) :
    /\ TracksOf(m, lang)[i].ext = "json3"
    /\ TracksOf(m, lang)[i].hasUrl
    /\ \A j \in 1..(i - 1) : TracksOf(m, lang)[j].ext # "json3"

\* get_subtitles has called _pick_json3_track on an info
Picked == entry = "get" /\ gpc # "extract" /\ gctx.info.kind = "info"

C25_NoDuplicateKeys ==
  (/\ mtarget = "subtitles_raw"
   /\ mlog # <<>>
   /\ mlog[1].before.SUBTITLES_RAW = <<>>
   /\ \A n \in DOMAIN mlog : ~mlog[n].raised) =>
     \A i, j \in DOMAIN bq.SUBTITLES_RAW :
       i # j => ~_build_merge_condition_from_keys(bq.SUBTITLES_RAW[i], bq.SUBTITLES_RAW[j])

\* The same for batches that hold no key twice
DistinctBatchNoDuplicateKeys ==
  (/\ mtarget = "subtitles_raw"
   /\ mlog # <<>>
   /\ mlog[1].before.SUBTITLES_RAW = <<>>
   /\ \A i, j \in DOMAIN batch.rows :
        i # j => ~_build_merge_condition_from_keys(batch.rows[i], batch.rows[j])) =>
     \A i, j \in DOMAIN bq.SUBTITLES_RAW :
       i # j => ~_build_merge_condition_from_keys(bq.SUBTITLES_RAW[i], bq.SUBTITLES_RAW[j])

(***************************************************************************)
(* Properties of concurrent upserts (SpecConc)                             *)
(***************************************************************************)

\* C24 as stated: when two upsert_subtitles_raw operations on the same
\* destination table run concurrently, under every interleaving of their
\* steps the staging table the merge of each operation reads exists and
\* holds precisely the rows that operation loaded.
C24_MergeReadsOwnBatch ==
  \A o \in Ops :
    uread[o].k # "none" => uread[o] = ReadRows(ubatch[o])

\* An operation that runs alone, the other not started or over, merges its
\* own rows
AloneReadsOwnBatch ==
  \A o \in Ops :
    (uread[o].k # "none" /\ \A p \in Ops \ {o} : ubatch[p] = <<>>) =>
      uread[o] = ReadRows(ubatch[o])

(***************************************************************************)
(* Properties of the start of the entry points (SpecStart)                 *)
(***************************************************************************)

\* The credential or project identifier the entry point requires is missing
RequiredMissing ==
  CASE sentry.fn = "ingest_videoinfo" -> ~senv.key
    [] sentry.fn = "load_to_bq" -> ~senv.project
    [] OTHER -> ~senv.key \/ ~senv.project

\* C22 as stated: when a required credential or project identifier is
\* missing, every ingestion entry point aborts at startup: no network call and
\* no warehouse mutation happens before the abort.
C22_AbortsAtStartup ==
  RequiredMissing => slog = <<>> /\ spc # "returned"

\* p02_fetch_videos.main does abort at startup
P02AbortsAtStartup ==
  (sentry.fn = "p02_fetch_videos" /\ RequiredMissing) =>
    slog = <<>> /\ spc \in {"check", "aborted"}

====
